---- MODULE Spec2Model ----
(***************************************************************************)
(* Cosimo: the objective/deliverable graph, its blob codec and the tool    *)
(* dispatchers of the server (mcp.js, two revisions) as a state machine.   *)
(*                                                                         *)
(* JavaScript values are represented as follows.                           *)
(*   - an id or a relationship key is a sequence of one-character strings  *)
(*     (so that split, parseInt, startsWith and endsWith are computed      *)
(*     character by character, as the code does);                          *)
(*   - every other string (title, description, ...) is a TLA+ string;      *)
(*   - undefined is UndefStr / UndefNum / UndefId, by the type of the slot;*)
(*   - NaN is the number NaN below;                                        *)
(*   - a graph is a record; "has" is the set of top-level containers the   *)
(*     document carries (a replaced document may lack some).               *)
(***************************************************************************)
EXTENDS Integers, Sequences, FiniteSets, TLC

VARIABLES
    blob,          \* users.data, per user id: the stored value
    account,       \* users.encryption_enabled / passphrase_hash, per user id
    DEFAULT_DATA,  \* the module-level default graph object of the process
    clock,         \* wall clock: one tick per tool call
    req,           \* per request slot: the handler's position and locals
    last,          \* the last completed call (what the caller was told)
    allocated,     \* history: ids handed out by add calls, in order, per kind
    looseKeys,     \* history: relationship keys created for a missing objective
    api_key,       \* users.api_key, per user id: the number of the current key
    sseConnections,\* the session registry: session id -> captured context
    conn,          \* per GET /mcp request: the handler's position, its socket and timer
    stdio,         \* the local package: its process, environment and default document
    reply,         \* what a transport answered to the latest request or line
    failures       \* history: sessions (and "line") that had a tool call fail

\* the state of the transports
net == <<api_key, sseConnections, conn, stdio, reply, failures>>

vars == <<blob, account, DEFAULT_DATA, clock, req, last, allocated, looseKeys, net>>

---------------------------------------------------------------------------
(* Bounds of the model *)

MaxCalls == 3
MaxEngineCalls == 4
MaxConcCalls == 3
MaxInflight == 2
MaxConns == 1           \* GET /mcp requests
MaxKeys == 2            \* API keys issued per user
MaxTransportCalls == 2  \* tool calls through the transports

Users == {"A", "B"}
Slots == 1..MaxInflight

---------------------------------------------------------------------------
(* JavaScript primitives *)

NaN == -1
UndefNum == -2
UndefStr == "<undefined>"
UndefId == <<"<undefined>">>

DigitChars == <<"0", "1", "2", "3", "4", "5", "6", "7", "8", "9">>

IsDigit(c) == \E d \in 1..10 : DigitChars[d] = c

DigitVal(c) == (CHOOSE d \in 1..10 : DigitChars[d] = c) - 1

RECURSIVE NumToStr(_)
\* `${n}` for a non-negative integer or NaN
NumToStr(n) ==
    IF n = NaN THEN <<"N", "a", "N">>
    ELSE IF n < 10 THEN <<DigitChars[n + 1]>>
    ELSE NumToStr(n \div 10) \o <<DigitChars[(n % 10) + 1]>>

RECURSIVE DecVal(_)
DecVal(s) ==
    IF Len(s) = 0 THEN 0
    ELSE 10 * DecVal(SubSeq(s, 1, Len(s) - 1)) + DigitVal(s[Len(s)])

\* index of the first occurrence of character c in s, 0 when there is none
IndexOf(s, c) ==
    IF \E i \in 1..Len(s) : s[i] = c
    THEN CHOOSE i \in 1..Len(s) : s[i] = c /\ \A j \in 1..(i - 1) : s[j] # c
    ELSE 0

\* index of the last occurrence of character c in s, 0 when there is none
LastIndexOf(s, c) ==
    IF \E i \in 1..Len(s) : s[i] = c
    THEN CHOOSE i \in 1..Len(s) : s[i] = c /\ \A j \in (i + 1)..Len(s) : s[j] # c
    ELSE 0

\* s.split('-')[1]
SplitDash1(s) ==
    LET i == IndexOf(s, "-") IN
    IF i = 0 THEN UndefId
    ELSE LET rest == SubSeq(s, i + 1, Len(s))
             j == IndexOf(rest, "-")
         IN IF j = 0 THEN rest ELSE SubSeq(rest, 1, j - 1)

\* parseInt(s): the leading run of decimal digits, NaN when it is empty
parseInt(s) ==
    LET n == CHOOSE k \in 0..Len(s) :
                 /\ \A i \in 1..k : IsDigit(s[i])
                 /\ (k = Len(s) \/ ~IsDigit(s[k + 1]))
    IN IF n = 0 THEN NaN ELSE DecVal(SubSeq(s, 1, n))

\* Math.max(...ns) for a non-empty list
MathMax(ns) ==
    IF \E i \in 1..Len(ns) : ns[i] = NaN THEN NaN
    ELSE CHOOSE m \in {ns[i] : i \in 1..Len(ns)} : \A i \in 1..Len(ns) : ns[i] <= m

\* n + 1
PlusOne(n) == IF n = NaN THEN NaN ELSE n + 1

startsWith(s, p) == Len(p) <= Len(s) /\ SubSeq(s, 1, Len(p)) = p

endsWith(s, p) == Len(p) <= Len(s) /\ SubSeq(s, Len(s) - Len(p) + 1, Len(s)) = p

\* truthiness of a string slot
Truthy(s) == s # UndefStr /\ s # ""

\* s || d
OrElse(s, d) == IF Truthy(s) THEN s ELSE d

\* n ?? d
Nullish(n, d) == IF n = UndefNum THEN d ELSE n

\* arr.filter(x => x !== v)
Without(arr, v) == SelectSeq(arr, LAMBDA x : x # v)

\* index of the first element with the given id (arr.find), 0 when none
FindById(arr, id) ==
    IF \E i \in 1..Len(arr) : arr[i].id = id
    THEN CHOOSE i \in 1..Len(arr) : arr[i].id = id /\ \A j \in 1..(i - 1) : arr[j].id # id
    ELSE 0

OBJ == <<"o", "b", "j", "-">>
DEL == <<"d", "e", "l", "-">>
COLON == <<":">>

ObjId(n) == OBJ \o NumToStr(n)
DelId(n) == DEL \o NumToStr(n)

\* `${objectiveId}:${deliverableId}`
RelKey(oid, did) == oid \o COLON \o did

\* the two segments of a relationship key "<objectiveId>:<deliverableId>"
ObjSegment(k) == SubSeq(k, 1, LastIndexOf(k, ":") - 1)
DelSegment(k) == SubSeq(k, LastIndexOf(k, ":") + 1, Len(k))

---------------------------------------------------------------------------
(* The graph document *)

EmptyRel == [k \in {} |-> ""]

Containers == {"objectives", "deliverables", "relationships"}

\* a document with the given containers; lastUpdated 0 stands for the time the
\* process started (db.js) or null (the local package)
Graph(objs, dels, rels, stamp) ==
    [objectives |-> objs, deliverables |-> dels, relationships |-> rels,
     lastUpdated |-> stamp, has |-> Containers]

\* the graph a fresh DEFAULT_DATA describes
EmptyGraph == Graph(<<>>, <<>>, EmptyRel, 0)

\* {}: a document with no container at all
EmptyDoc == [EmptyGraph EXCEPT !.has = {}]

\* Arguments of a tool call: every slot a tool reads, undefined when not given
NoArgs ==
    [title |-> UndefStr, description |-> UndefStr, urgency |-> UndefNum,
     deadline |-> UndefStr, impact |-> UndefStr, objectiveId |-> UndefId,
     feasibility |-> UndefNum, complexity |-> UndefStr, relationship |-> UndefStr,
     available_after |-> UndefStr, due_before |-> UndefStr, id |-> UndefId,
     data |-> EmptyDoc]

\* What one pass through the switch of a dispatcher yields: ok = it returned
\* (did not throw / answer with an error status), store = saveUserData was
\* called with data, created = the id of the entity it echoes
Outcome(ok, data, store, created, err) ==
    [ok |-> ok, data |-> data, store |-> store, created |-> created, err |-> err]

Thrown(data, err) == Outcome(FALSE, data, FALSE, UndefId, err)

\* Object.keys(rels).forEach(k => { if (k.startsWith(p)) delete rels[k] })
RelWithoutPrefix(rels, p) ==
    [k \in {x \in DOMAIN rels : ~startsWith(x, p)} |-> rels[k]]

\* Object.keys(rels).forEach(k => { if (k.endsWith(p)) delete rels[k] })
RelWithoutSuffix(rels, p) ==
    [k \in {x \in DOMAIN rels : ~endsWith(x, p)} |-> rels[k]]

RelPut(rels, key, text) ==
    [k \in DOMAIN rels \cup {key} |-> IF k = key THEN text ELSE rels[k]]

\* an allocator that takes the collection's length for the highest number in use
MaxIdOfByCount(items) == Len(items)

\* an allocator that reads the number of the first element only
MaxIdOfFirst(items) ==
    IF Len(items) # 0 THEN parseInt(SplitDash1(items[1].id)) ELSE 0

\* maxId of a collection: data.xs.length ? Math.max(...xs.map(parseInt(id.split('-')[1]))) : 0
MaxIdOf(items) ==
    IF Len(items) # 0
    THEN MathMax([i \in 1..Len(items) |-> parseInt(SplitDash1(items[i].id))])
    ELSE 0

\* a get that stamps the document and saves it
GetToolStamps(data, args, now) ==
    Outcome(TRUE, [data EXCEPT !.lastUpdated = now], TRUE, UndefId, "")

\* case 'cosimo_get': the loaded data is returned, nothing is saved
GetTool(data, args, now) == Outcome(TRUE, data, FALSE, UndefId, "")

\* case 'cosimo_set'
\* a cosimo_set that merges the document over the loaded graph
SetToolMergesOver(data, args, now) ==
    Outcome(TRUE,
            [data EXCEPT
               !.objectives = IF "objectives" \in args.data.has
                              THEN args.data.objectives ELSE @,
               !.deliverables = IF "deliverables" \in args.data.has
                                THEN args.data.deliverables ELSE @,
               !.relationships = IF "relationships" \in args.data.has
                                 THEN args.data.relationships ELSE @,
               !.has = @ \cup args.data.has,
               !.lastUpdated = now],
            TRUE, UndefId, "")

SetTool(data, args, now) ==
    Outcome(TRUE, [args.data EXCEPT !.lastUpdated = now], TRUE, UndefId, "")

\* case 'cosimo_add_objective'
AddObjectiveTool(data, args, now) ==
    IF "objectives" \notin data.has THEN Thrown(data, "TypeError")
    ELSE
    LET maxId == MaxIdOf(data.objectives)
        newObj == [id |-> OBJ \o NumToStr(PlusOne(maxId)),
                   title |-> args.title,
                   description |-> OrElse(args.description, ""),
                   urgency |-> Nullish(args.urgency, 50),
                   deadline |-> OrElse(args.deadline, ""),
                   impact |-> OrElse(args.impact, "medium"),
                   linkedDeliverables |-> <<>>]
    IN Outcome(TRUE,
               [data EXCEPT !.objectives = Append(@, newObj), !.lastUpdated = now],
               TRUE, newObj.id, "")

\* case 'cosimo_add_deliverable'
\* a cosimo_add_deliverable that puts the new id at the front of the
\* objective's linkedDeliverables
AddDeliverableFrontLink(data, args, now) ==
    IF "deliverables" \notin data.has \/ "objectives" \notin data.has
       \/ (Truthy(args.relationship) /\ "relationships" \notin data.has)
    THEN Thrown(data, "TypeError")
    ELSE
    LET maxId == MaxIdOf(data.deliverables)
        newDel == [id |-> DEL \o NumToStr(PlusOne(maxId)),
                   title |-> args.title,
                   description |-> OrElse(args.description, ""),
                   feasibility |-> Nullish(args.feasibility, 50),
                   complexity |-> OrElse(args.complexity, "medium"),
                   blockers |-> <<>>,
                   linkedObjectives |-> <<args.objectiveId>>,
                   available_after |-> IF Truthy(args.available_after)
                                       THEN args.available_after ELSE UndefStr,
                   due_before |-> IF Truthy(args.due_before)
                                  THEN args.due_before ELSE UndefStr]
        obj == FindById(data.objectives, args.objectiveId)
        objs == IF obj # 0
                THEN [data.objectives EXCEPT
                         ![obj].linkedDeliverables = <<newDel.id>> \o @]
                ELSE data.objectives
        rels == IF Truthy(args.relationship)
                THEN RelPut(data.relationships,
                            RelKey(args.objectiveId, newDel.id), args.relationship)
                ELSE data.relationships
    IN Outcome(TRUE,
               [data EXCEPT !.deliverables = Append(@, newDel), !.objectives = objs,
                            !.relationships = rels, !.lastUpdated = now],
               TRUE, newDel.id, "")

\* a cosimo_add_deliverable that refuses an objectiveId it cannot find
AddDeliverableStrict(data, args, now) ==
    IF "deliverables" \notin data.has \/ "objectives" \notin data.has
       \/ (Truthy(args.relationship) /\ "relationships" \notin data.has)
    THEN Thrown(data, "TypeError")
    ELSE
    LET maxId == MaxIdOf(data.deliverables)
        newDel == [id |-> DEL \o NumToStr(PlusOne(maxId)),
                   title |-> args.title,
                   description |-> OrElse(args.description, ""),
                   feasibility |-> Nullish(args.feasibility, 50),
                   complexity |-> OrElse(args.complexity, "medium"),
                   blockers |-> <<>>,
                   linkedObjectives |-> <<args.objectiveId>>,
                   available_after |-> IF Truthy(args.available_after)
                                       THEN args.available_after ELSE UndefStr,
                   due_before |-> IF Truthy(args.due_before)
                                  THEN args.due_before ELSE UndefStr]
        obj == FindById(data.objectives, args.objectiveId)
        objs == IF obj # 0
                THEN [data.objectives EXCEPT
                         ![obj].linkedDeliverables = Append(@, newDel.id)]
                ELSE data.objectives
        rels == IF Truthy(args.relationship)
                THEN RelPut(data.relationships,
                            RelKey(args.objectiveId, newDel.id), args.relationship)
                ELSE data.relationships
    IN IF obj = 0 THEN Thrown(data, "Objective not found") ELSE
       Outcome(TRUE,
               [data EXCEPT !.deliverables = Append(@, newDel), !.objectives = objs,
                            !.relationships = rels, !.lastUpdated = now],
               TRUE, newDel.id, "")

\* a cosimo_add_deliverable that does not push the new id to the objective
AddDeliverableNoBackLink(data, args, now) ==
    IF "deliverables" \notin data.has \/ "objectives" \notin data.has
       \/ (Truthy(args.relationship) /\ "relationships" \notin data.has)
    THEN Thrown(data, "TypeError")
    ELSE
    LET maxId == MaxIdOf(data.deliverables)
        newDel == [id |-> DEL \o NumToStr(PlusOne(maxId)),
                   title |-> args.title,
                   description |-> OrElse(args.description, ""),
                   feasibility |-> Nullish(args.feasibility, 50),
                   complexity |-> OrElse(args.complexity, "medium"),
                   blockers |-> <<>>,
                   linkedObjectives |-> <<args.objectiveId>>,
                   available_after |-> IF Truthy(args.available_after)
                                       THEN args.available_after ELSE UndefStr,
                   due_before |-> IF Truthy(args.due_before)
                                  THEN args.due_before ELSE UndefStr]
        obj == FindById(data.objectives, args.objectiveId)
        objs == data.objectives
        rels == IF Truthy(args.relationship)
                THEN RelPut(data.relationships,
                            RelKey(args.objectiveId, newDel.id), args.relationship)
                ELSE data.relationships
    IN Outcome(TRUE,
               [data EXCEPT !.deliverables = Append(@, newDel), !.objectives = objs,
                            !.relationships = rels, !.lastUpdated = now],
               TRUE, newDel.id, "")

AddDeliverableTool(data, args, now) ==
    IF "deliverables" \notin data.has \/ "objectives" \notin data.has
       \/ (Truthy(args.relationship) /\ "relationships" \notin data.has)
    THEN Thrown(data, "TypeError")
    ELSE
    LET maxId == MaxIdOf(data.deliverables)
        newDel == [id |-> DEL \o NumToStr(PlusOne(maxId)),
                   title |-> args.title,
                   description |-> OrElse(args.description, ""),
                   feasibility |-> Nullish(args.feasibility, 50),
                   complexity |-> OrElse(args.complexity, "medium"),
                   blockers |-> <<>>,
                   linkedObjectives |-> <<args.objectiveId>>,
                   available_after |-> IF Truthy(args.available_after)
                                       THEN args.available_after ELSE UndefStr,
                   due_before |-> IF Truthy(args.due_before)
                                  THEN args.due_before ELSE UndefStr]
        obj == FindById(data.objectives, args.objectiveId)
        objs == IF obj # 0
                THEN [data.objectives EXCEPT
                         ![obj].linkedDeliverables = Append(@, newDel.id)]
                ELSE data.objectives
        rels == IF Truthy(args.relationship)
                THEN RelPut(data.relationships,
                            RelKey(args.objectiveId, newDel.id), args.relationship)
                ELSE data.relationships
    IN Outcome(TRUE,
               [data EXCEPT !.deliverables = Append(@, newDel), !.objectives = objs,
                            !.relationships = rels, !.lastUpdated = now],
               TRUE, newDel.id, "")

\* a cosimo_update_objective that re-stamps and stores before it reports the
\* missing id
UpdateObjectiveStoresFirst(data, args, now) ==
    IF "objectives" \notin data.has THEN Thrown(data, "TypeError")
    ELSE IF FindById(data.objectives, args.id) = 0
    THEN Outcome(FALSE, [data EXCEPT !.lastUpdated = now], TRUE, UndefId,
                 "Objective not found")
    ELSE Outcome(TRUE, [data EXCEPT !.lastUpdated = now], TRUE, args.id, "")

\* case 'cosimo_update_objective'
\* a cosimo_update_objective that assigns description whenever it is defined,
\* the empty string included
UpdateObjectiveAssignsDefined(data, args, now) ==
    IF "objectives" \notin data.has THEN Thrown(data, "TypeError")
    ELSE
    LET obj == FindById(data.objectives, args.id) IN
    IF obj = 0 THEN Thrown(data, "Objective not found")
    ELSE Outcome(TRUE,
                 [data EXCEPT
                    !.objectives[obj].title = IF Truthy(args.title) THEN args.title ELSE @,
                    !.objectives[obj].description =
                        IF args.description # UndefStr THEN args.description ELSE @,
                    !.objectives[obj].urgency =
                        IF args.urgency # UndefNum THEN args.urgency ELSE @,
                    !.objectives[obj].deadline =
                        IF Truthy(args.deadline) THEN args.deadline ELSE @,
                    !.objectives[obj].impact = IF Truthy(args.impact) THEN args.impact ELSE @,
                    !.lastUpdated = now],
                 TRUE, args.id, "")

UpdateObjectiveTool(data, args, now) ==
    IF "objectives" \notin data.has THEN Thrown(data, "TypeError")
    ELSE
    LET obj == FindById(data.objectives, args.id) IN
    IF obj = 0 THEN Thrown(data, "Objective not found")
    ELSE Outcome(TRUE,
                 [data EXCEPT
                    !.objectives[obj].title = IF Truthy(args.title) THEN args.title ELSE @,
                    !.objectives[obj].description =
                        IF Truthy(args.description) THEN args.description ELSE @,
                    !.objectives[obj].urgency =
                        IF args.urgency # UndefNum THEN args.urgency ELSE @,
                    !.objectives[obj].deadline =
                        IF Truthy(args.deadline) THEN args.deadline ELSE @,
                    !.objectives[obj].impact = IF Truthy(args.impact) THEN args.impact ELSE @,
                    !.lastUpdated = now],
                 TRUE, args.id, "")

\* a cosimo_update_deliverable that merges feasibility like the text fields:
\* only when it is truthy
UpdateDeliverableTruthyScore(data, args, now) ==
    IF "deliverables" \notin data.has THEN Thrown(data, "TypeError")
    ELSE
    LET del == FindById(data.deliverables, args.id) IN
    IF del = 0 THEN Thrown(data, "Deliverable not found")
    ELSE Outcome(TRUE,
                 [data EXCEPT
                    !.deliverables[del].title = IF Truthy(args.title) THEN args.title ELSE @,
                    !.deliverables[del].description =
                        IF Truthy(args.description) THEN args.description ELSE @,
                    !.deliverables[del].feasibility =
                        IF args.feasibility \notin {UndefNum, 0, NaN}
                        THEN args.feasibility ELSE @,
                    !.deliverables[del].complexity =
                        IF Truthy(args.complexity) THEN args.complexity ELSE @,
                    !.deliverables[del].available_after =
                        IF Truthy(args.available_after) THEN args.available_after ELSE @,
                    !.deliverables[del].due_before =
                        IF Truthy(args.due_before) THEN args.due_before ELSE @,
                    !.lastUpdated = now],
                 TRUE, args.id, "")

\* case 'cosimo_update_deliverable'
UpdateDeliverableTool(data, args, now) ==
    IF "deliverables" \notin data.has THEN Thrown(data, "TypeError")
    ELSE
    LET del == FindById(data.deliverables, args.id) IN
    IF del = 0 THEN Thrown(data, "Deliverable not found")
    ELSE Outcome(TRUE,
                 [data EXCEPT
                    !.deliverables[del].title = IF Truthy(args.title) THEN args.title ELSE @,
                    !.deliverables[del].description =
                        IF Truthy(args.description) THEN args.description ELSE @,
                    !.deliverables[del].feasibility =
                        IF args.feasibility # UndefNum THEN args.feasibility ELSE @,
                    !.deliverables[del].complexity =
                        IF Truthy(args.complexity) THEN args.complexity ELSE @,
                    !.deliverables[del].available_after =
                        IF Truthy(args.available_after) THEN args.available_after ELSE @,
                    !.deliverables[del].due_before =
                        IF Truthy(args.due_before) THEN args.due_before ELSE @,
                    !.lastUpdated = now],
                 TRUE, args.id, "")

\* the obj- branch without the forEach over data.deliverables
DeleteObjectiveKeepsLinks(data, id) ==
    [data EXCEPT
       !.objectives = SelectSeq(@, LAMBDA o : o.id # id),
       !.relationships = RelWithoutPrefix(@, id \o COLON)]

\* the obj- branch without the loop over Object.keys(data.relationships)
DeleteObjectiveKeepsKeys(data, id) ==
    [data EXCEPT
       !.objectives = SelectSeq(@, LAMBDA o : o.id # id),
       !.deliverables = [i \in 1..Len(@) |->
                            [@[i] EXCEPT !.linkedObjectives = Without(@, id)]]]

\* case 'cosimo_delete', the branch id.startsWith('obj-')
\* a delete of an objective that matches relationship keys by the bare id
DeleteObjectiveByBarePrefix(data, id) ==
    [data EXCEPT
       !.objectives = SelectSeq(@, LAMBDA o : o.id # id),
       !.deliverables = [i \in 1..Len(@) |->
                            [@[i] EXCEPT !.linkedObjectives = Without(@, id)]],
       !.relationships = RelWithoutPrefix(@, id)]

DeleteObjective(data, id) ==
    [data EXCEPT
       !.objectives = SelectSeq(@, LAMBDA o : o.id # id),
       !.deliverables = [i \in 1..Len(@) |->
                            [@[i] EXCEPT !.linkedObjectives = Without(@, id)]],
       !.relationships = RelWithoutPrefix(@, id \o COLON)]

\* the del- branch without the loop over Object.keys(data.relationships)
DeleteDeliverableKeepsKeys(data, id) ==
    [data EXCEPT
       !.deliverables = SelectSeq(@, LAMBDA d : d.id # id),
       !.objectives = [i \in 1..Len(@) |->
                          [@[i] EXCEPT !.linkedDeliverables = Without(@, id)]]]

\* case 'cosimo_delete', the branch id.startsWith('del-')
DeleteDeliverable(data, id) ==
    [data EXCEPT
       !.deliverables = SelectSeq(@, LAMBDA d : d.id # id),
       !.objectives = [i \in 1..Len(@) |->
                          [@[i] EXCEPT !.linkedDeliverables = Without(@, id)]],
       !.relationships = RelWithoutSuffix(@, COLON \o id)]

\* case 'cosimo_delete'
\* a cosimo_delete that refuses an id with neither prefix
DeleteKnownPrefixOnly(data, args, now) ==
    LET id == args.id IN
    IF id = UndefId THEN Thrown(data, "TypeError")
    ELSE IF (startsWith(id, OBJ) \/ startsWith(id, DEL)) /\ data.has # Containers
    THEN Thrown(data, "TypeError")
    ELSE LET after == IF startsWith(id, OBJ) THEN DeleteObjective(data, id)
                      ELSE IF startsWith(id, DEL) THEN DeleteDeliverable(data, id)
                      ELSE data
         IN IF ~(startsWith(id, OBJ) \/ startsWith(id, DEL))
            THEN Thrown(data, "Unknown id") ELSE
            Outcome(TRUE, [after EXCEPT !.lastUpdated = now], TRUE, UndefId, "")

DeleteTool(data, args, now) ==
    LET id == args.id IN
    IF id = UndefId THEN Thrown(data, "TypeError")
    ELSE IF (startsWith(id, OBJ) \/ startsWith(id, DEL)) /\ data.has # Containers
    THEN Thrown(data, "TypeError")
    ELSE LET after == IF startsWith(id, OBJ) THEN DeleteObjective(data, id)
                      ELSE IF startsWith(id, DEL) THEN DeleteDeliverable(data, id)
                      ELSE data
         IN Outcome(TRUE, [after EXCEPT !.lastUpdated = now], TRUE, UndefId, "")

\* the catalog MCP_TOOLS
ToolNames ==
    {"cosimo_get", "cosimo_set", "cosimo_add_objective", "cosimo_add_deliverable",
     "cosimo_update_objective", "cosimo_update_deliverable", "cosimo_delete"}

\* a switch that has no case for cosimo_delete
executeToolWithoutDelete(toolName, args, data, now) ==
    CASE toolName = "cosimo_get" -> GetTool(data, args, now)
      [] toolName = "cosimo_set" -> SetTool(data, args, now)
      [] toolName = "cosimo_add_objective" -> AddObjectiveTool(data, args, now)
      [] toolName = "cosimo_add_deliverable" -> AddDeliverableTool(data, args, now)
      [] toolName = "cosimo_update_objective" -> UpdateObjectiveTool(data, args, now)
      [] toolName = "cosimo_update_deliverable" -> UpdateDeliverableTool(data, args, now)
      [] OTHER -> Thrown(data, "Unknown tool")

\* executeTool: the switch over toolName, applied to the loaded data
executeTool(toolName, args, data, now) ==
    CASE toolName = "cosimo_get" -> GetTool(data, args, now)
      [] toolName = "cosimo_set" -> SetTool(data, args, now)
      [] toolName = "cosimo_add_objective" -> AddObjectiveTool(data, args, now)
      [] toolName = "cosimo_add_deliverable" -> AddDeliverableTool(data, args, now)
      [] toolName = "cosimo_update_objective" -> UpdateObjectiveTool(data, args, now)
      [] toolName = "cosimo_update_deliverable" -> UpdateDeliverableTool(data, args, now)
      [] toolName = "cosimo_delete" -> DeleteTool(data, args, now)
      [] OTHER -> Thrown(data, "Unknown tool")

---------------------------------------------------------------------------
(* The stored value and the blob codec (crypto.js, getUserData, saveUserData) *)

SALT_LENGTH == 32
IV_LENGTH == 16
AUTH_TAG_LENGTH == 16

Passphrases == {"p1", "p2"}
NoPassphrase == UndefStr

\* users.data: absent (NULL or ''), the JSON text of doc, an envelope sealing
\* doc under key, or other text; long says whether that text base64-decodes to
\* more than salt + iv + tag + 10 bytes
Absent == [kind |-> "absent", doc |-> EmptyDoc, key |-> "", long |-> FALSE]
Garbage(long) == [kind |-> "garbage", doc |-> EmptyDoc, key |-> "", long |-> long]

\* the characters of JSON.stringify(g) that belong to the base64 alphabets
\* (letters, digits, '-', '_', '+', '/'), counted from the property names, the
\* ids and the ISO timestamp; opaque strings are counted as empty
RECURSIVE SumLen(_)
SumLen(ids) == IF Len(ids) = 0 THEN 0 ELSE Len(Head(ids)) + SumLen(Tail(ids))

RECURSIVE ObjectiveChars(_)
ObjectiveChars(objs) ==
    IF Len(objs) = 0 THEN 0
    ELSE 57 + Len(Head(objs).id) + SumLen(Head(objs).linkedDeliverables)
         + ObjectiveChars(Tail(objs))

RECURSIVE DeliverableChars(_)
DeliverableChars(dels) ==
    IF Len(dels) = 0 THEN 0
    ELSE 63 + Len(Head(dels).id) + SumLen(Head(dels).linkedObjectives)
         + DeliverableChars(Tail(dels))

RECURSIVE KeyChars(_)
KeyChars(keys) ==
    IF keys = {} THEN 0
    ELSE LET k == CHOOSE x \in keys : TRUE IN (Len(k) - 1) + KeyChars(keys \ {k})

JsonBase64Chars(g) ==
    (IF "objectives" \in g.has THEN 10 + ObjectiveChars(g.objectives) ELSE 0)
    + (IF "deliverables" \in g.has THEN 12 + DeliverableChars(g.deliverables) ELSE 0)
    + (IF "relationships" \in g.has THEN 13 + KeyChars(DOMAIN g.relationships) ELSE 0)
    + 11 + 21

\* JSON.stringify(data): a container the document lacks is not written
JsonText(g) ==
    [kind |-> "json",
     doc |-> [g EXCEPT !.objectives = IF "objectives" \in g.has THEN @ ELSE <<>>,
                       !.deliverables = IF "deliverables" \in g.has THEN @ ELSE <<>>,
                       !.relationships = IF "relationships" \in g.has THEN @ ELSE EmptyRel],
     key |-> "",
     long |-> (JsonBase64Chars(g) * 3) \div 4
                 > SALT_LENGTH + IV_LENGTH + AUTH_TAG_LENGTH + 10]

\* an encryptData that seals the document without its relationships
encryptDataWithoutRelationships(g, passphrase) ==
    [kind |-> "sealed", doc |-> [JsonText(g).doc EXCEPT !.relationships = EmptyRel],
     key |-> passphrase, long |-> TRUE]

\* encryptData(data, passphrase)
encryptData(g, passphrase) ==
    [kind |-> "sealed", doc |-> JsonText(g).doc, key |-> passphrase, long |-> TRUE]

\* isEncrypted(str): the decoded length alone decides
isEncrypted(b) == b.long

\* What a load yields: ok = it returned, shared = data's containers are the
\* containers of DEFAULT_DATA themselves ({ ...DEFAULT_DATA } copies the
\* references, not the arrays)
Loaded(ok, data, shared) == [ok |-> ok, data |-> data, shared |-> shared]

\* decryptData(encryptedString, passphrase)
decryptData(b, passphrase) ==
    IF b.kind = "sealed" /\ b.key = passphrase
    THEN Loaded(TRUE, b.doc, FALSE)
    ELSE Loaded(FALSE, EmptyDoc, FALSE)

\* getUserData(userId, encryptionEnabled, passphrase), given the row's data
\* and the current DEFAULT_DATA
getUserData(b, encryptionEnabled, passphrase, dd) ==
    IF b.kind = "absent" THEN Loaded(TRUE, dd, TRUE)
    ELSE IF encryptionEnabled /\ isEncrypted(b) THEN decryptData(b, passphrase)
    ELSE IF b.kind = "json" THEN Loaded(TRUE, b.doc, FALSE)
    ELSE Loaded(TRUE, dd, TRUE)

\* saveUserData(userId, encryptionEnabled, passphrase, data): the value written
saveUserData(encryptionEnabled, passphrase, data) ==
    IF encryptionEnabled THEN encryptData(data, passphrase) ELSE JsonText(data)

\* an UPDATE that writes only into a row that holds no data yet
StoredValueIfEmpty(current, written) ==
    IF current.kind = "absent" THEN written ELSE current

\* UPDATE users SET data = $1 WHERE id = $2: the column after the statement,
\* whatever it held
StoredValue(current, written) == written

\* DEFAULT_DATA after a tool ran on data whose containers are DEFAULT_DATA's own:
\* push, Object.assign, forEach and delete act on the shared arrays, objects and
\* map; an assignment to data.objectives / data.deliverables / data.lastUpdated
\* rebinds the copy only
SharedAfter(toolName, args, dd, out) ==
    IF ~out.ok THEN dd
    ELSE CASE toolName = "cosimo_add_objective" ->
                [dd EXCEPT !.objectives = out.data.objectives]
           [] toolName = "cosimo_add_deliverable" ->
                [dd EXCEPT !.objectives = out.data.objectives,
                           !.deliverables = out.data.deliverables,
                           !.relationships = out.data.relationships]
           [] toolName = "cosimo_update_objective" ->
                [dd EXCEPT !.objectives = out.data.objectives]
           [] toolName = "cosimo_update_deliverable" ->
                [dd EXCEPT !.deliverables = out.data.deliverables]
           [] toolName = "cosimo_delete" /\ startsWith(args.id, OBJ) ->
                [dd EXCEPT !.deliverables = out.data.deliverables,
                           !.relationships = out.data.relationships]
           [] toolName = "cosimo_delete" /\ ~startsWith(args.id, OBJ)
                                          /\ startsWith(args.id, DEL) ->
                [dd EXCEPT !.objectives = out.data.objectives,
                           !.relationships = out.data.relationships]
           [] OTHER -> dd

---------------------------------------------------------------------------
(* Accounts and the passphrase verifier (crypto.js, mcpAuth) *)

\* crypto.pbkdf2Sync(passphrase, salt, iterations, 32, 'sha256'), taken to be
\* injective in its three inputs
Pbkdf2(passphrase, salt, iterations) == <<passphrase, salt, iterations>>

\* users.passphrase_hash when no passphrase was ever set (NULL)
NoToken == [set |-> FALSE, salt |-> 0, hash |-> <<>>]

\* hashPassphrase(passphrase), for the salt crypto.randomBytes(16) returned
hashPassphrase(passphrase, salt) ==
    [set |-> TRUE, salt |-> salt, hash |-> Pbkdf2(passphrase, salt, 10000)]

\* verifyPassphrase(passphrase, storedHash): false on any failure to parse
verifyPassphrase(passphrase, storedHash) ==
    storedHash.set /\ Pbkdf2(passphrase, storedHash.salt, 10000) = storedHash.hash

PlainAccount == [encryption_enabled |-> FALSE, passphrase_hash |-> NoToken]
SealedAccount(p) == [encryption_enabled |-> TRUE, passphrase_hash |-> hashPassphrase(p, 0)]

\* an mcpAuth with one code for both passphrase failures
mcpAuthSingleCode(acct, passphrase) ==
    IF acct.encryption_enabled
       /\ (passphrase = NoPassphrase \/ ~verifyPassphrase(passphrase, acct.passphrase_hash))
    THEN "PASSPHRASE_REQUIRED"
    ELSE "next"

\* mcpAuth, after the API key resolved to a user: the status it answers with,
\* 200 standing for next()
mcpAuth(acct, passphrase) ==
    IF acct.encryption_enabled /\ passphrase = NoPassphrase THEN "PASSPHRASE_REQUIRED"
    ELSE IF acct.encryption_enabled /\ ~verifyPassphrase(passphrase, acct.passphrase_hash)
    THEN "INVALID_PASSPHRASE"
    ELSE "next"

---------------------------------------------------------------------------
(* The dispatchers *)

\* a /execute whose update cases answer success for an id that is not found
executeNotFoundAnswersOk(tool, parameters, data, now) ==
    LET out == executeTool(tool, parameters, data, now) IN
    IF out.err \in {"Objective not found", "Deliverable not found"}
    THEN Outcome(TRUE, data, FALSE, UndefId, "")
    ELSE out

\* POST /mcp/execute (mcp.js, current revision): the switch over tool
execute(tool, parameters, data, now) ==
    CASE tool = "cosimo_get" -> GetTool(data, parameters, now)
      [] tool = "cosimo_set" -> SetTool(data, parameters, now)
      [] tool = "cosimo_add_objective" -> AddObjectiveTool(data, parameters, now)
      [] tool = "cosimo_add_deliverable" -> AddDeliverableTool(data, parameters, now)
      [] tool = "cosimo_update_objective" -> UpdateObjectiveTool(data, parameters, now)
      [] tool = "cosimo_update_deliverable" -> UpdateDeliverableTool(data, parameters, now)
      [] tool = "cosimo_delete" -> DeleteTool(data, parameters, now)
      [] OTHER -> Thrown(data, "Unknown tool")

\* POST /mcp/execute (mcp.js, earlier revision): add_objective answers before
\* the UPDATE at the end of the handler is reached; deliverables carry no
\* available_after / due_before
executeLegacy(tool, parameters, data, now) ==
    LET p == [parameters EXCEPT !.available_after = UndefStr, !.due_before = UndefStr] IN
    CASE tool = "cosimo_get" -> GetTool(data, p, now)
      [] tool = "cosimo_set" -> SetTool(data, p, now)
      [] tool = "cosimo_add_objective" ->
            [AddObjectiveTool(data, p, now) EXCEPT !.store = FALSE]
      [] tool = "cosimo_add_deliverable" -> AddDeliverableTool(data, p, now)
      [] tool = "cosimo_update_objective" -> UpdateObjectiveTool(data, p, now)
      [] tool = "cosimo_update_deliverable" -> UpdateDeliverableTool(data, p, now)
      [] tool = "cosimo_delete" -> DeleteTool(data, p, now)
      [] OTHER -> Thrown(data, "Unknown tool")

Surfaces == {"rpc", "http", "legacy"}

Dispatch(surface, tool, args, data, now) ==
    CASE surface = "rpc" -> executeTool(tool, args, data, now)
      [] surface = "http" -> execute(tool, args, data, now)
      [] surface = "legacy" -> executeLegacy(tool, args, data, now)

\* the load a surface performs: the earlier revision reads the JSONB column as
\* an object (the column holds JSON) and knows no encryption
LoadFor(surface, b, enc, passphrase, dd) ==
    IF surface = "legacy" THEN Loaded(TRUE, b.doc, FALSE)
    ELSE getUserData(b, enc, passphrase, dd)

\* the value a surface writes
SaveFor(surface, enc, passphrase, data) ==
    IF surface = "legacy" THEN JsonText(data) ELSE saveUserData(enc, passphrase, data)

---------------------------------------------------------------------------
(* Inputs *)

ObjectiveIds == {ObjId(1), ObjId(2)}
DeliverableIds == {DelId(1), DelId(2)}
OtherId == <<"x", "-", "1">>

\* documents handed to cosimo_set: {}, and a graph with foreign ids
ForeignObjective ==
    [id |-> ObjId(10), title |-> "F", description |-> "", urgency |-> 50,
     deadline |-> "", impact |-> "medium", linkedDeliverables |-> <<>>]

ReplaceDocs == {EmptyDoc, Graph(<<ForeignObjective>>, <<>>, EmptyRel, 0)}

\* the argument objects the engine is exercised with
EngineArgsOf(tool) ==
    CASE tool = "cosimo_set" -> {[NoArgs EXCEPT !.data = d] : d \in ReplaceDocs}
      [] tool = "cosimo_add_objective" ->
            {[NoArgs EXCEPT !.title = "T", !.urgency = g] : g \in {UndefNum, 70}}
      [] tool = "cosimo_add_deliverable" ->
            {[NoArgs EXCEPT !.title = "T", !.objectiveId = o, !.relationship = r] :
                o \in ObjectiveIds, r \in {UndefStr, "R"}}
      [] tool = "cosimo_update_objective" ->
            {[NoArgs EXCEPT !.id = o, !.urgency = 0] : o \in ObjectiveIds}
      [] tool = "cosimo_update_deliverable" ->
            {[NoArgs EXCEPT !.id = d, !.feasibility = 0] : d \in DeliverableIds}
      [] tool = "cosimo_delete" ->
            {[NoArgs EXCEPT !.id = i] :
                i \in ObjectiveIds \cup DeliverableIds \cup {OtherId}}
      [] OTHER -> {NoArgs}

\* the argument objects the dispatchers are exercised with
ArgsOf(tool) ==
    CASE tool = "cosimo_set" -> {[NoArgs EXCEPT !.data = EmptyDoc]}
      [] tool = "cosimo_add_objective" -> {[NoArgs EXCEPT !.title = "T", !.urgency = 70]}
      [] tool = "cosimo_add_deliverable" ->
            {[NoArgs EXCEPT !.title = "T", !.objectiveId = ObjId(1), !.relationship = "R"]}
      [] tool = "cosimo_update_objective" ->
            {[NoArgs EXCEPT !.id = ObjId(1), !.urgency = 0]}
      [] tool = "cosimo_update_deliverable" ->
            {[NoArgs EXCEPT !.id = DelId(1), !.feasibility = 0]}
      [] tool = "cosimo_delete" -> {[NoArgs EXCEPT !.id = i] : i \in {ObjId(1), DelId(1)}}
      [] OTHER -> {NoArgs}

UnknownTool == "cosimo_nope"

MutatingTools == ToolNames \ {"cosimo_get", "cosimo_set"}

---------------------------------------------------------------------------
(* State *)

NoCall ==
    [user |-> "", surface |-> "", tool |-> "", args |-> NoArgs, status |-> "none",
     ok |-> FALSE, stored |-> FALSE, created |-> UndefId, before |-> Absent,
     overwrote |-> Absent, loaded |-> EmptyDoc, data |-> EmptyDoc, enc |-> FALSE, pass |-> NoPassphrase,
     now |-> 0, err |-> "", session |-> 0, seq |-> 0]

IdleSlot == [pc |-> "idle", call |-> NoCall, raw |-> Absent, shared |-> FALSE,
             payload |-> Absent]

NoHistory == [obj |-> <<>>, del |-> <<>>]

\* an API key: the n-th key issued to user (csk_...); NoKey = none presented
Key(u, n) == [user |-> u, n |-> n]
NoKey == [user |-> "", n |-> 0]

ConnIds == 1..MaxConns

\* a GET /mcp request that has not arrived yet
IdleConn ==
    [phase |-> "idle", alive |-> FALSE, timer |-> FALSE, cancels |-> 0,
     latePing |-> FALSE, midCall |-> FALSE, apiKey |-> NoKey,
     passphrase |-> NoPassphrase]

\* a transport's answer: HTTP status (0 on the line transport or while the
\* call runs), the JSON-RPC envelope written (none / result / error), its
\* code, result.isError, the id member (the request's, null, or none) and the
\* number of lines written to stdout; tick flips with every request handled
NoReply ==
    [transport |-> "", input |-> "", session |-> 0, status |-> 0,
     envelope |-> "none", code |-> 0, isError |-> FALSE, id |-> "none", lines |-> 0,
     sent |-> <<>>]

NoFailures == [sse |-> {}, line |-> FALSE, garbled |-> FALSE]

\* the local package when it starts: COSIMO_API_KEY is the first key of
\* LineUser, COSIMO_PASSPHRASE is not set
LineUser == "A"

StdioStart ==
    [open |-> TRUE, DEFAULT_DATA |-> EmptyGraph, API_KEY |-> Key(LineUser, 1),
     PASSPHRASE |-> NoPassphrase]

NetInit ==
    /\ api_key = [u \in Users |-> 1]
    /\ sseConnections = <<>>
    /\ conn = [c \in ConnIds |-> IdleConn]
    /\ stdio = StdioStart
    /\ reply = NoReply
    /\ failures = NoFailures

\* what a user's row can hold when the process starts: no data, the default
\* document written at registration, text that is no JSON, or (encryption
\* enabled from the dashboard) the envelope of the default document
InitRows(u) ==
    IF u = "A"
    THEN {[account |-> PlainAccount, blob |-> Absent],
          [account |-> PlainAccount, blob |-> JsonText(EmptyGraph)]}
    ELSE {[account |-> PlainAccount, blob |-> Absent],
          [account |-> PlainAccount, blob |-> Garbage(TRUE)],
          [account |-> SealedAccount("p1"), blob |-> encryptData(EmptyGraph, "p1")]}

Init ==
    /\ \E rows \in [Users -> UNION {InitRows(v) : v \in Users}] :
          /\ \A u \in Users : rows[u] \in InitRows(u)
          /\ blob = [u \in Users |-> rows[u].blob]
          /\ account = [u \in Users |-> rows[u].account]
    /\ DEFAULT_DATA = EmptyGraph
    /\ clock = 0
    /\ req = [s \in Slots |-> IdleSlot]
    /\ last = NoCall
    /\ allocated = NoHistory
    /\ looseKeys = {}
    /\ NetInit

\* the status a surface answers with
StatusOf(surface, ld, out) ==
    IF surface = "rpc" THEN (IF ld.ok /\ out.ok THEN "result" ELSE "isError")
    ELSE IF ~ld.ok THEN "500"
    ELSE IF out.ok THEN "200"
    ELSE IF out.err \in {"Objective not found", "Deliverable not found"} THEN "404"
    ELSE IF out.err = "Unknown tool" THEN "400"
    ELSE "500"

\* one whole tool call for user u under the context (enc, passphrase):
\* load, switch, store, answer
Call(u, surface, enc, passphrase, tool, args) ==
    LET now == clock + 1
        ld == LoadFor(surface, blob[u], enc, passphrase, DEFAULT_DATA)
        out == IF ld.ok THEN Dispatch(surface, tool, args, ld.data, now)
               ELSE Thrown(EmptyDoc, "Decryption failed")
    IN /\ clock' = now
       /\ blob' = IF out.store
                  THEN [blob EXCEPT
                          ![u] = StoredValue(@, SaveFor(surface, enc, passphrase, out.data))]
                  ELSE blob
       /\ DEFAULT_DATA' = IF ld.ok /\ ld.shared
                          THEN SharedAfter(tool, args, DEFAULT_DATA, out)
                          ELSE DEFAULT_DATA
       /\ last' = [user |-> u, surface |-> surface, tool |-> tool, args |-> args,
                   status |-> StatusOf(surface, ld, out), ok |-> ld.ok /\ out.ok,
                   stored |-> out.store, created |-> out.created, before |-> blob[u],
                   overwrote |-> blob[u], loaded |-> ld.data, data |-> out.data, enc |-> enc,
                   pass |-> passphrase, now |-> now,
                   err |-> IF ld.ok THEN out.err ELSE "Decryption failed", session |-> 0,
                   seq |-> 0]

\* a passphrase the holder of the account presents: the one that verifies when
\* encryption is enabled, none otherwise
Holds(u, passphrase) ==
    IF account[u].encryption_enabled
    THEN passphrase \in Passphrases
         /\ verifyPassphrase(passphrase, account[u].passphrase_hash)
    ELSE passphrase = NoPassphrase

\* tools/call over JSON-RPC (handleJsonRpc -> executeTool), under the identity
\* and passphrase the transport established
RpcCall(u, tool, args) ==
    \E passphrase \in Passphrases \cup {NoPassphrase} :
        /\ Holds(u, passphrase)
        /\ clock < MaxCalls
        /\ Call(u, "rpc", account[u].encryption_enabled, passphrase, tool, args)
        /\ UNCHANGED <<account, req, allocated, looseKeys, net>>

\* POST /mcp/execute, mcpAuth calls next(): the handler runs with the
\* passphrase of the request (of no effect when encryption is off)
HttpExecute(u, passphrase, tool, args) ==
    /\ mcpAuth(account[u], passphrase) = "next"
    /\ account[u].encryption_enabled \/ passphrase = NoPassphrase
    /\ clock < MaxCalls
    /\ Call(u, "http", account[u].encryption_enabled, passphrase, tool, args)
    /\ UNCHANGED <<account, req, allocated, looseKeys, net>>

\* POST /mcp/execute, mcpAuth answers 401: the handler does not run
HttpRefused(u, passphrase) ==
    LET auth == mcpAuth(account[u], passphrase) IN
    /\ auth # "next"
    /\ clock < MaxCalls
    /\ clock' = clock + 1
    /\ last' = [NoCall EXCEPT !.user = u, !.surface = "http", !.status = auth,
                              !.before = blob[u], !.pass = passphrase,
                              !.now = clock + 1]
    /\ UNCHANGED <<blob, DEFAULT_DATA, account, req, allocated, looseKeys, net>>

\* POST /mcp/execute of the earlier revision (API key only, JSONB column)
LegacyExecute(u, tool, args) ==
    /\ blob[u].kind = "json"
    /\ clock < MaxCalls
    /\ Call(u, "legacy", FALSE, NoPassphrase, tool, args)
    /\ UNCHANGED <<account, req, allocated, looseKeys, net>>

AllTools == ToolNames \cup {UnknownTool}

Next ==
    \/ \E u \in Users, tool \in AllTools : \E args \in ArgsOf(tool) :
          RpcCall(u, tool, args)
    \/ \E u \in Users, passphrase \in Passphrases \cup {NoPassphrase}, tool \in AllTools :
          \E args \in ArgsOf(tool) : HttpExecute(u, passphrase, tool, args)
    \/ \E u \in Users, passphrase \in Passphrases \cup {NoPassphrase} :
          HttpRefused(u, passphrase)
    \/ \E u \in Users, tool \in AllTools : \E args \in ArgsOf(tool) :
          LegacyExecute(u, tool, args)

Spec == Init /\ [][Next]_vars

---------------------------------------------------------------------------
(* The mutation engine alone: one user, one call at a time, no cosimo_set *)

EngineUser == "A"

EngineInit ==
    /\ \E b \in {Absent, JsonText(EmptyGraph)} :
          blob = [u \in Users |-> IF u = EngineUser THEN b ELSE Absent]
    /\ account = [u \in Users |-> PlainAccount]
    /\ DEFAULT_DATA = EmptyGraph
    /\ clock = 0
    /\ req = [s \in Slots |-> IdleSlot]
    /\ last = NoCall
    /\ allocated = NoHistory
    /\ looseKeys = {}
    /\ NetInit

\* the graph the next call of user u would load
CurrentGraph(u) ==
    getUserData(blob[u], account[u].encryption_enabled, NoPassphrase, DEFAULT_DATA).data

EngineCall(tool, args) ==
    /\ clock < MaxEngineCalls
    /\ Call(EngineUser, "rpc", FALSE, NoPassphrase, tool, args)
    /\ allocated' =
          IF last'.ok /\ tool = "cosimo_add_objective"
          THEN [allocated EXCEPT !.obj = Append(@, last'.created)]
          ELSE IF last'.ok /\ tool = "cosimo_add_deliverable"
          THEN [allocated EXCEPT !.del = Append(@, last'.created)]
          ELSE allocated
    /\ looseKeys' =
          LET key == RelKey(args.objectiveId, last'.created)
              made == last'.ok /\ tool = "cosimo_add_deliverable"
                      /\ Truthy(args.relationship)
              missing == FindById(last'.loaded.objectives, args.objectiveId) = 0
              keys == IF made /\ missing THEN looseKeys \cup {key}
                      ELSE IF made THEN looseKeys \ {key}
                      ELSE looseKeys
          IN IF last'.ok THEN keys \cap DOMAIN last'.data.relationships ELSE looseKeys
    /\ UNCHANGED <<account, req, net>>

EngineAddObjective ==
    \E args \in EngineArgsOf("cosimo_add_objective") : EngineCall("cosimo_add_objective", args)

EngineAddDeliverable ==
    \E args \in EngineArgsOf("cosimo_add_deliverable") :
        EngineCall("cosimo_add_deliverable", args)

EngineUpdateObjective ==
    \E args \in EngineArgsOf("cosimo_update_objective") :
        EngineCall("cosimo_update_objective", args)

EngineUpdateDeliverable ==
    \E args \in EngineArgsOf("cosimo_update_deliverable") :
        EngineCall("cosimo_update_deliverable", args)

EngineDelete ==
    \E args \in EngineArgsOf("cosimo_delete") : EngineCall("cosimo_delete", args)

EngineNext ==
    \/ EngineAddObjective
    \/ EngineAddDeliverable
    \/ EngineUpdateObjective
    \/ EngineUpdateDeliverable
    \/ EngineDelete

SpecEngine == EngineInit /\ [][EngineNext]_vars

---------------------------------------------------------------------------
(* Properties of the mutation engine, checked under SpecEngine *)

NoDuplicateIds(items) ==
    \A i, j \in 1..Len(items) : items[i].id = items[j].id => i = j

NoDuplicates(ids) == \A i, j \in 1..Len(ids) : ids[i] = ids[j] => i = j

HasId(items, id) == \E i \in 1..Len(items) : items[i].id = id

Contains(ids, id) == \E i \in 1..Len(ids) : ids[i] = id

\* the last call was a delete that returned, and the value stored is its graph
DeleteReturned ==
    /\ last.tool = "cosimo_delete"
    /\ last.ok

\* C1: in every graph reached from the empty graph by add, update and delete
\* calls, no two objectives share an id and no two deliverables share an id.
C1_UniqueIds ==
    /\ NoDuplicateIds(CurrentGraph(EngineUser).objectives)
    /\ NoDuplicateIds(CurrentGraph(EngineUser).deliverables)

\* C1 witness: two objectives are stored after three were allocated (one was
\* deleted in between).
C1_Witness ==
    /\ Len(CurrentGraph(EngineUser).objectives) = 2
    /\ Len(allocated.obj) = 3

\* C2 (as claimed): no id is handed out twice by add calls of one kind, even
\* when the entity that carried it has been deleted.
C2_NeverReused ==
    /\ NoDuplicates(allocated.obj)
    /\ NoDuplicates(allocated.del)

\* C3: after delete(id) of an existing objective the stored graph has no
\* objective id, no deliverable linking to id, no relationship key whose
\* objective segment is id, and every deliverable it had before.
C3_DeleteObjectiveCascades ==
    (DeleteReturned /\ startsWith(last.args.id, OBJ)
        /\ HasId(last.loaded.objectives, last.args.id))
    => LET id == last.args.id
           g == CurrentGraph(last.user)
       IN /\ g = JsonText(last.data).doc
          /\ ~HasId(g.objectives, id)
          /\ \A i \in 1..Len(g.deliverables) :
                ~Contains(g.deliverables[i].linkedObjectives, id)
          /\ \A k \in DOMAIN g.relationships : ObjSegment(k) # id
          /\ \A i \in 1..Len(last.loaded.deliverables) :
                HasId(g.deliverables, last.loaded.deliverables[i].id)

\* C3 witness: an objective was deleted that a deliverable linked to and a
\* relationship key named.
C3_Witness ==
    /\ DeleteReturned
    /\ HasId(last.loaded.objectives, last.args.id)
    /\ \E i \in 1..Len(last.loaded.deliverables) :
          Contains(last.loaded.deliverables[i].linkedObjectives, last.args.id)
    /\ \E k \in DOMAIN last.loaded.relationships : ObjSegment(k) = last.args.id

\* C4: after delete(id) of an existing deliverable the stored graph has no
\* deliverable id, no objective linking to id, no relationship key whose
\* deliverable segment is id, and every objective it had before.
C4_DeleteDeliverableCascades ==
    (DeleteReturned /\ startsWith(last.args.id, DEL)
        /\ HasId(last.loaded.deliverables, last.args.id))
    => LET id == last.args.id
           g == CurrentGraph(last.user)
       IN /\ g = JsonText(last.data).doc
          /\ ~HasId(g.deliverables, id)
          /\ \A i \in 1..Len(g.objectives) :
                ~Contains(g.objectives[i].linkedDeliverables, id)
          /\ \A k \in DOMAIN g.relationships : DelSegment(k) # id
          /\ \A i \in 1..Len(last.loaded.objectives) :
                HasId(g.objectives, last.loaded.objectives[i].id)

\* C4 witness: a deliverable was deleted that an objective linked to and a
\* relationship key named.
C4_Witness ==
    /\ DeleteReturned
    /\ HasId(last.loaded.deliverables, last.args.id)
    /\ \E i \in 1..Len(last.loaded.objectives) :
          Contains(last.loaded.objectives[i].linkedDeliverables, last.args.id)
    /\ \E k \in DOMAIN last.loaded.relationships : DelSegment(k) = last.args.id

\* C5 (as claimed): every relationship key names an objective and a
\* deliverable that exist in the graph.
C5_KeysResolve ==
    LET g == CurrentGraph(EngineUser) IN
    \A k \in DOMAIN g.relationships :
        HasId(g.objectives, ObjSegment(k)) /\ HasId(g.deliverables, DelSegment(k))

\* C5 (amended): every relationship key names a deliverable that exists, and
\* an objective that exists unless the key was created by an addDeliverable
\* whose objectiveId named no objective at that time.
C5_KeysResolveUnlessLoose ==
    LET g == CurrentGraph(EngineUser) IN
    \A k \in DOMAIN g.relationships :
        /\ HasId(g.deliverables, DelSegment(k))
        /\ k \notin looseKeys => HasId(g.objectives, ObjSegment(k))

\* C5 witness: after a delete, a key created for an existing objective is
\* still there next to a key created for a missing one.
C5_Witness ==
    LET g == CurrentGraph(EngineUser) IN
    /\ DeleteReturned
    /\ \E k \in DOMAIN g.relationships : k \notin looseKeys
    /\ \E k \in DOMAIN g.relationships : k \in looseKeys

---------------------------------------------------------------------------
(* Concurrent tool calls of one user: each call is a read of the row, the   *)
(* synchronous run of the switch up to the point saveUserData issues its    *)
(* UPDATE (the value is serialised before the first await), and the UPDATE  *)

\* the calls that race: one that only reads, one that adds, one that removes
ConcTools == {"cosimo_get", "cosimo_add_objective", "cosimo_delete"}

ConcArgsOf(tool) ==
    IF tool = "cosimo_delete" THEN {[NoArgs EXCEPT !.id = ObjId(1)]} ELSE ArgsOf(tool)

ConcInit == EngineInit

\* a request arrives and is routed to the dispatcher; it takes the first free
\* slot (slots carry no identity)
Begin(s, tool, args) ==
    /\ req[s].pc = "idle"
    /\ \A t \in Slots : t < s => req[t].pc # "idle"
    /\ clock < MaxConcCalls
    /\ clock' = clock + 1
    /\ req' = [req EXCEPT ![s] =
                 [IdleSlot EXCEPT !.pc = "begun",
                                  !.call = [NoCall EXCEPT !.user = EngineUser,
                                                          !.surface = "rpc",
                                                          !.tool = tool, !.args = args]]]
    /\ UNCHANGED <<blob, account, DEFAULT_DATA, last, allocated, looseKeys, net>>

\* handleJsonRpc / handleRequest for a request that runs no tool: the response
\* object (envelope none = null), or thrown when the function throws (the
\* destructuring of params is outside the try)
Answer(envelope, code, isError, id, thrown) ==
    [envelope |-> envelope, code |-> code, isError |-> isError, id |-> id,
     thrown |-> thrown]

handleJsonRpc(request) ==
    CASE request.method = "initialize" -> Answer("result", 0, FALSE, "echo", FALSE)
      [] request.method = "notifications/initialized" -> Answer("none", 0, FALSE, "none", FALSE)
      [] request.method = "tools/list" -> Answer("result", 0, FALSE, "echo", FALSE)
      [] request.method = "tools/call" /\ ~request.params ->
            Answer("none", 0, FALSE, "none", TRUE)
      [] OTHER -> Answer("error", -32601, FALSE, "echo", FALSE)

\* a tools/call whose executeTool is awaited outside any try: a failing tool
\* throws out of the function
ToolAnswerUncaught(ok) == Answer("result", 0, FALSE, "echo", ~ok)

\* the result of tools/call once executeTool returned or threw inside the try
ToolAnswer(ok) == Answer("result", 0, ~ok, "echo", FALSE)

\* POST /messages around handleJsonRpc: res.json(response), 202 for null, and
\* the catch that answers 500 with code -32603
MessagesReply(c, method, a) ==
    [transport |-> "sse", input |-> method, session |-> c,
     status |-> IF a.thrown THEN 500 ELSE IF a.envelope = "none" THEN 202 ELSE 200,
     envelope |-> IF a.thrown THEN "error" ELSE a.envelope,
     code |-> IF a.thrown THEN -32603 ELSE a.code,
     isError |-> a.isError,
     id |-> IF a.thrown THEN "echo" ELSE a.id,
     lines |-> 0,
     sent |-> <<>>]

\* the reply of a finished tool call: the POST of its session is answered; a
\* call that came through no session writes nothing here
CallReply(call, ok) ==
    IF call.session = 0 THEN NoReply
    ELSE MessagesReply(call.session, "tools/call", ToolAnswer(ok))

\* SELECT data FROM users WHERE id = $1
Load(s) ==
    /\ req[s].pc = "begun"
    /\ req' = [req EXCEPT ![s].pc = "loaded", ![s].raw = blob[req[s].call.user]]
    /\ reply' = NoReply
    /\ UNCHANGED <<blob, account, DEFAULT_DATA, clock, last, allocated, looseKeys>>
    /\ UNCHANGED <<api_key, sseConnections, conn, stdio, failures>>

\* the continuation of executeTool after the read: decode, switch, serialise
Compute(s) ==
    LET c == req[s].call
        ld == LoadFor(c.surface, req[s].raw, c.enc, c.pass, DEFAULT_DATA)
        out == IF ld.ok THEN Dispatch(c.surface, c.tool, c.args, ld.data, clock)
               ELSE Thrown(EmptyDoc, "Decryption failed")
        done == [c EXCEPT !.status = StatusOf(c.surface, ld, out),
                          !.ok = ld.ok /\ out.ok, !.stored = out.store,
                          !.created = out.created, !.before = req[s].raw,
                          !.loaded = ld.data, !.data = out.data, !.now = clock,
                          !.err = IF ld.ok THEN out.err ELSE "Decryption failed"]
    IN /\ req[s].pc = "loaded"
       /\ DEFAULT_DATA' = IF ld.ok /\ ld.shared
                          THEN SharedAfter(c.tool, c.args, DEFAULT_DATA, out)
                          ELSE DEFAULT_DATA
       /\ IF out.store
          THEN /\ req' = [req EXCEPT ![s].pc = "computed", ![s].call = done,
                                     ![s].payload = SaveFor(c.surface, c.enc, c.pass, out.data)]
               /\ last' = last
          ELSE /\ req' = [req EXCEPT ![s] = IdleSlot]
               /\ last' = done
       /\ failures' = IF ~out.store /\ ~done.ok /\ c.session # 0
                      THEN [failures EXCEPT !.sse = @ \cup {c.session}] ELSE failures
       /\ reply' = IF ~out.store THEN CallReply(c, done.ok) ELSE NoReply
       /\ UNCHANGED <<blob, account, clock, allocated, looseKeys>>
       /\ UNCHANGED <<api_key, sseConnections, conn, stdio>>

\* the UPDATE lands and the call answers
Store(s) ==
    /\ req[s].pc = "computed"
    /\ blob' = [blob EXCEPT ![req[s].call.user] = StoredValue(@, req[s].payload)]
    /\ last' = [req[s].call EXCEPT !.overwrote = blob[req[s].call.user]]
    /\ req' = [req EXCEPT ![s] = IdleSlot]
    /\ reply' = CallReply(req[s].call, TRUE)
    /\ UNCHANGED <<account, DEFAULT_DATA, clock, allocated, looseKeys>>
    /\ UNCHANGED <<api_key, sseConnections, conn, stdio, failures>>

ConcNext ==
    \/ \E s \in Slots, tool \in ConcTools : \E args \in ConcArgsOf(tool) :
          Begin(s, tool, args)
    \/ \E s \in Slots : Load(s)
    \/ \E s \in Slots : Compute(s)
    \/ \E s \in Slots : Store(s)

SpecConc == ConcInit /\ [][ConcNext]_vars

---------------------------------------------------------------------------
(* Properties of the dispatchers and the codec *)

\* the last request ran a tool (it was not refused by mcpAuth)
ToolRan == last.status \in {"result", "isError", "200", "400", "404", "500"}

\* the graph a cosimo_get through the same surface and context as the last
\* call would return now
GraphSeenBy(c) ==
    LoadFor(c.surface, blob[c.user], c.enc, c.pass, DEFAULT_DATA).data

\* C6 (as claimed): once an addObjective call reports success, on whichever
\* dispatcher, a get by the same user with no call in between returns a graph
\* that contains the created objective.
C6_AddObjectiveIsStored ==
    (last.tool = "cosimo_add_objective" /\ last.ok)
        => HasId(GraphSeenBy(last).objectives, last.created)

\* C7: two calls of one user that both read the row before either wrote it:
\* the row ends up holding exactly what the later writer serialised, and for
\* two addObjective calls on a stored empty graph that is one objective.
C7_LaterStoreWins ==
    (last.stored /\ last.overwrote # last.before)
        => /\ blob[last.user] = JsonText(last.data)
           /\ (last.tool = "cosimo_add_objective" /\ last.before = JsonText(EmptyGraph))
                 => Len(CurrentGraph(last.user).objectives) = 1

\* C7 witness: an addObjective that read the stored empty graph wrote over the
\* objective another addObjective had stored in the meantime; both returned.
C7_Witness ==
    /\ last.tool = "cosimo_add_objective"
    /\ last.ok
    /\ last.stored
    /\ last.before = JsonText(EmptyGraph)
    /\ last.overwrote.kind = "json"
    /\ Len(last.overwrote.doc.objectives) = 1
    /\ Len(CurrentGraph(last.user).objectives) = 1

\* C8: a get never writes: the step of a get call leaves every stored blob
\* (and the process's default document) as it was, and a get that directly
\* follows a get of the same user returns an equal graph.
C8_GetNeverWrites ==
    [][(clock' = clock + 1 /\ last'.tool = "cosimo_get")
          => /\ blob' = blob
             /\ DEFAULT_DATA' = DEFAULT_DATA
             /\ (last.tool = "cosimo_get" /\ last.user = last'.user
                    /\ last.pass = last'.pass)
                   => (last'.ok = last.ok /\ last'.data = last.data)]_vars

\* C8 witness: a get, as the third call, returned a graph with an objective
\* from a row that held no JSON when the process started.
C8_Witness ==
    /\ last.tool = "cosimo_get"
    /\ last.ok
    /\ last.now = 3
    /\ Len(last.data.objectives) = 1
    /\ last.before.kind = "json"
    /\ last.user = "B"

\* C9 (as claimed): whenever a user's row holds nothing, or text that is no
\* JSON and is not taken for an envelope, load returns the empty graph and does
\* not fail, whatever calls ran before.
C9_AbsentLoadsEmpty ==
    \A u \in Users, passphrase \in Passphrases \cup {NoPassphrase} :
        (/\ blob[u].kind \in {"absent", "garbage"}
         /\ ~(account[u].encryption_enabled /\ isEncrypted(blob[u]))
         /\ Holds(u, passphrase))
        => LET ld == getUserData(blob[u], account[u].encryption_enabled,
                                 passphrase, DEFAULT_DATA)
           IN /\ ld.ok
              /\ ld.data.objectives = <<>>
              /\ ld.data.deliverables = <<>>
              /\ DOMAIN ld.data.relationships = {}

\* C10 (as claimed): a call for one user leaves every other user's row as it
\* was, and what it returns is what the dispatcher computes from that user's
\* own row and arguments alone (a default document nobody has touched).
C10_PartitionedByUser ==
    [][clock' = clock + 1
          => /\ \A v \in Users \ {last'.user} : blob'[v] = blob[v]
             /\ ToolRan'
                   => LET c == last'
                          own == LoadFor(c.surface, c.before, c.enc, c.pass, EmptyGraph)
                          out == Dispatch(c.surface, c.tool, c.args, own.data, c.now)
                      IN c.ok = (own.ok /\ out.ok) /\ c.data = out.data]_vars

---------------------------------------------------------------------------
(* The transports: the SSE session layer of the server (GET /mcp, POST      *)
(* /mcp/messages), the account routes that change what a session captured,  *)
(* and the line transport of the local package (readline over stdin)        *)

\* SELECT ... FROM users WHERE api_key = $1: the user the key resolves to, or ""
Lookup(key, keys) ==
    IF key.user \in Users /\ keys[key.user] = key.n THEN key.user ELSE ""

\* a GET /mcp that checks the key alone
sseAuthKeyOnly(user, acct, passphrase) ==
    IF user = "" THEN "Invalid API key" ELSE "stream"

\* GET /mcp after the SELECT: 401 unless the key resolved and, when the
\* account's encryption flag is set, a passphrase was sent and verifies
sseAuth(user, acct, passphrase) ==
    IF user = "" THEN "Invalid API key"
    ELSE IF ~acct[user].encryption_enabled THEN "stream"
    ELSE IF ~Truthy(passphrase) THEN "Passphrase required"
    ELSE IF ~verifyPassphrase(passphrase, acct[user].passphrase_hash)
    THEN "Invalid passphrase"
    ELSE "stream"

\* sseConnections.set(sessionId, { res, userId, encryptionEnabled, passphrase })
Entry(user, acct, passphrase) ==
    [userId |-> user, encryptionEnabled |-> acct[user].encryption_enabled,
     passphrase |-> passphrase]

\* a POST handler that reads the encryption flag of the account as it is now
ContextOfAccountNow(entry, acct) ==
    [user |-> entry.userId, enc |-> acct[entry.userId].encryption_enabled,
     pass |-> entry.passphrase]

\* const { userId, encryptionEnabled, passphrase } = conn
ContextOf(entry, acct) ==
    [user |-> entry.userId, enc |-> entry.encryptionEnabled, pass |-> entry.passphrase]

\* the registry with session c set / deleted
RegistrySet(reg, c, entry) ==
    [k \in DOMAIN reg \cup {c} |-> IF k = c THEN entry ELSE reg[k]]

RegistryDelete(reg, c) == [k \in DOMAIN reg \ {c} |-> reg[k]]

\* JSON-RPC requests: the method, and whether a params member is present
Methods ==
    {"initialize", "notifications/initialized", "tools/list", "tools/call",
     "resources/list"}

Request(method, params) == [method |-> method, params |-> params]

\* requests answered without running a tool
PlainRequests ==
    {Request(m, FALSE) : m \in Methods}

\* a line handler that answers what it caught as the server's POST handler
\* does: code -32603 under the id of the request
LineReplyAsServer(input, a) ==
    [transport |-> "line", input |-> input, session |-> 0,
     status |-> 0,
     envelope |-> IF a.thrown THEN "error" ELSE a.envelope,
     code |-> IF a.thrown THEN -32603 ELSE a.code,
     isError |-> a.isError,
     id |-> IF a.thrown THEN "echo" ELSE a.id,
     lines |-> IF a.thrown \/ a.envelope # "none" THEN 1 ELSE 0,
     sent |-> <<>>]

\* a line handler that writes whatever handleRequest returned, null included
LineReplyWritesNull(input, a) ==
    [transport |-> "line", input |-> input, session |-> 0,
     status |-> 0,
     envelope |-> IF a.thrown THEN "error" ELSE a.envelope,
     code |-> IF a.thrown THEN -32700 ELSE a.code,
     isError |-> a.isError,
     id |-> IF a.thrown THEN "null" ELSE a.id,
     lines |-> 1,
     sent |-> <<>>]

\* rl.on('line') around handleRequest: one line per response, none for null,
\* and the catch that writes code -32700 with id null
LineReply(input, a) ==
    [transport |-> "line", input |-> input, session |-> 0,
     status |-> 0,
     envelope |-> IF a.thrown THEN "error" ELSE a.envelope,
     code |-> IF a.thrown THEN -32700 ELSE a.code,
     isError |-> a.isError,
     id |-> IF a.thrown THEN "null" ELSE a.id,
     lines |-> IF a.thrown \/ a.envelope # "none" THEN 1 ELSE 0,
     sent |-> <<>>]

\* an answer of the session layer that is no JSON-RPC envelope
HttpReply(input, c, status) ==
    [NoReply EXCEPT !.transport = "sse", !.input = input,
                    !.session = c, !.status = status]

\* GET /mcp arrives: without a key it is answered 401 at once, otherwise the
\* handler awaits the SELECT
OpenBegin(c, key, passphrase) ==
    /\ conn[c].phase = "idle"
    /\ \A d \in ConnIds : d < c => conn[d].phase # "idle"
    /\ IF key = NoKey
       THEN /\ conn' = [conn EXCEPT ![c].phase = "refused"]
            /\ reply' = HttpReply("open", c, 401)
       ELSE /\ conn' = [conn EXCEPT ![c] = [IdleConn EXCEPT !.phase = "pending",
                                                           !.alive = TRUE, !.apiKey = key,
                                                           !.passphrase = passphrase]]
            /\ reply' = NoReply
    /\ UNCHANGED <<blob, account, DEFAULT_DATA, clock, req, last, allocated, looseKeys>>
    /\ UNCHANGED <<api_key, sseConnections, stdio, failures>>

\* the SELECT returned: 401, or the registry entry, the endpoint event, the
\* ping interval and the close listener
OpenFinish(c) ==
    LET user == Lookup(conn[c].apiKey, api_key)
        verdict == sseAuth(user, account, conn[c].passphrase)
    IN /\ conn[c].phase = "pending"
       /\ IF verdict = "stream"
          THEN /\ sseConnections' =
                      RegistrySet(sseConnections, c, Entry(user, account, conn[c].passphrase))
               /\ conn' = [conn EXCEPT ![c] = [IdleConn EXCEPT !.phase = "streaming",
                                                               !.alive = conn[c].alive,
                                                               !.timer = TRUE]]
               /\ reply' = HttpReply("open", c, 200)
          ELSE /\ sseConnections' = sseConnections
               /\ conn' = [conn EXCEPT ![c] = [IdleConn EXCEPT !.phase = "refused"]]
               /\ reply' = HttpReply("open", c, 401)
       /\ UNCHANGED <<blob, account, DEFAULT_DATA, clock, req, last, allocated, looseKeys>>
       /\ UNCHANGED <<api_key, stdio, failures>>

\* a call of session c has read the blob and has not answered yet
InFlightFor(c) ==
    \E s \in Slots : req[s].pc \in {"loaded", "computed"} /\ req[s].call.session = c

\* a close listener that also drops the calls of its session that have not
\* stored yet
CloseAborts(c) ==
    /\ conn[c].alive
    /\ conn[c].phase \in {"pending", "streaming"}
    /\ conn' = [conn EXCEPT ![c].alive = FALSE, ![c].timer = FALSE,
                            ![c].midCall = InFlightFor(c)]
    /\ sseConnections' = RegistryDelete(sseConnections, c)
    /\ req' = [s \in Slots |-> IF req[s].call.session = c THEN IdleSlot ELSE req[s]]
    /\ reply' = NoReply
    /\ UNCHANGED <<blob, account, DEFAULT_DATA, clock, last, allocated, looseKeys>>
    /\ UNCHANGED <<api_key, stdio, failures>>

\* the connection of GET /mcp closes: 'close' is emitted on req once; the
\* listener, if it is attached by then, clears the interval and deletes the entry
Close(c) ==
    /\ conn[c].alive
    /\ conn[c].phase \in {"pending", "streaming"}
    /\ IF conn[c].phase = "streaming"
       THEN /\ conn' = [conn EXCEPT ![c].alive = FALSE, ![c].timer = FALSE,
                                    ![c].cancels = @ + 1,
                                    ![c].midCall = InFlightFor(c)]
            /\ sseConnections' = RegistryDelete(sseConnections, c)
       ELSE /\ conn' = [conn EXCEPT ![c].alive = FALSE]
            /\ sseConnections' = sseConnections
    /\ UNCHANGED <<blob, account, DEFAULT_DATA, clock, req, last, allocated, looseKeys>>
    /\ reply' = NoReply
    /\ UNCHANGED <<api_key, stdio, failures>>

\* the interval fires: res.write(': ping')
Ping(c) ==
    /\ conn[c].timer
    /\ conn' = [conn EXCEPT ![c].latePing = @ \/ ~conn[c].alive]
    /\ UNCHANGED <<blob, account, DEFAULT_DATA, clock, req, last, allocated, looseKeys>>
    /\ reply' = NoReply
    /\ UNCHANGED <<api_key, sseConnections, stdio, failures>>

\* POST /messages with a session id the registry does not hold
PostRejected(c) ==
    /\ c \notin DOMAIN sseConnections
    /\ reply' = HttpReply("post", c, 400)
    /\ UNCHANGED <<blob, account, DEFAULT_DATA, clock, req, last, allocated, looseKeys>>
    /\ UNCHANGED <<api_key, sseConnections, conn, stdio, failures>>

\* POST /messages with a request that runs no tool
PostPlain(c, request) ==
    /\ c \in DOMAIN sseConnections
    /\ reply' = MessagesReply(c, request.method, handleJsonRpc(request))
    /\ UNCHANGED <<blob, account, DEFAULT_DATA, clock, req, last, allocated, looseKeys>>
    /\ UNCHANGED <<api_key, sseConnections, conn, stdio, failures>>

\* POST /messages with tools/call: executeTool starts under the context the
\* registry holds for the session
PostToolCall(c, tool, args) ==
    /\ c \in DOMAIN sseConnections
    /\ req[1].pc = "idle"
    /\ clock < MaxTransportCalls
    /\ clock' = clock + 1
    /\ LET ctx == ContextOf(sseConnections[c], account) IN
       req' = [req EXCEPT ![1] =
                 [IdleSlot EXCEPT !.pc = "begun",
                                  !.call = [NoCall EXCEPT !.user = ctx.user,
                                                          !.surface = "rpc",
                                                          !.enc = ctx.enc, !.pass = ctx.pass,
                                                          !.session = c,
                                                          !.tool = tool, !.args = args]]]
    /\ reply' = NoReply
    /\ UNCHANGED <<blob, account, DEFAULT_DATA, last, allocated, looseKeys>>
    /\ UNCHANGED <<api_key, sseConnections, conn, stdio, failures>>

\* the UPDATE of saveUserData is rejected by the database: executeTool throws
\* inside the try of handleJsonRpc
StoreFails(s) ==
    /\ req[s].pc = "computed"
    /\ req[s].call.session # 0
    /\ last' = [req[s].call EXCEPT !.ok = FALSE, !.stored = FALSE, !.status = "isError",
                                   !.err = "store failed",
                                   !.overwrote = blob[req[s].call.user]]
    /\ req' = [req EXCEPT ![s] = IdleSlot]
    /\ failures' = [failures EXCEPT !.sse = @ \cup {req[s].call.session}]
    /\ reply' = CallReply(req[s].call, FALSE)
    /\ UNCHANGED <<blob, account, DEFAULT_DATA, clock, allocated, looseKeys>>
    /\ UNCHANGED <<api_key, sseConnections, conn, stdio>>

\* POST /auth/regenerate-key
RegenerateKey(u) ==
    /\ api_key[u] < MaxKeys
    /\ api_key' = [api_key EXCEPT ![u] = @ + 1]
    /\ reply' = NoReply
    /\ UNCHANGED <<blob, account, DEFAULT_DATA, clock, req, last, allocated, looseKeys>>
    /\ UNCHANGED <<sseConnections, conn, stdio, failures>>

\* POST /auth/enable-encryption: the row's JSON (or DEFAULT_DATA) is sealed
\* under the passphrase and the flag and the token are set
EnableEncryption(u, passphrase) ==
    LET currentData == IF blob[u].kind = "json" THEN blob[u].doc ELSE DEFAULT_DATA IN
    /\ ~account[u].encryption_enabled
    /\ account' = [account EXCEPT ![u] = SealedAccount(passphrase)]
    /\ blob' = [blob EXCEPT ![u] = encryptData(currentData, passphrase)]
    /\ reply' = NoReply
    /\ UNCHANGED <<DEFAULT_DATA, clock, req, last, allocated, looseKeys>>
    /\ UNCHANGED <<api_key, sseConnections, conn, stdio, failures>>

\* GET /api/blob and PUT /api/blob of the server, as the local package uses
\* them: the data column of the user the key resolves to
BlobGet(rows, user) == rows[user]

BlobPut(rows, user, value) == [rows EXCEPT ![user] = value]

\* lines that run no tool: text that is no JSON, the JSON text null, and the
\* requests above
LineInputs == {"unparsable", "null"} \cup {r.method : r \in PlainRequests}

\* a line arrives that runs no tool
Line(input) ==
    LET a == IF input \in {"unparsable", "null"}
             THEN Answer("none", 0, FALSE, "none", TRUE)
             ELSE handleJsonRpc(Request(input, FALSE))
    IN /\ stdio.open
       /\ reply' = LineReply(input, a)
       /\ failures' = [failures EXCEPT !.garbled = @ \/ input = "unparsable"]
       /\ UNCHANGED <<blob, account, DEFAULT_DATA, clock, req, last, allocated, looseKeys>>
       /\ UNCHANGED <<api_key, sseConnections, conn, stdio>>

\* a tools/call line: fetchData, the switch, saveData, one line out
\* a saveData that always PUTs JSON.stringify(data)
saveDataPlain(PASSPHRASE, data) == JsonText(data)

\* saveData of the local package: the body it PUTs
saveData(PASSPHRASE, data) ==
    IF Truthy(PASSPHRASE) THEN encryptData(data, PASSPHRASE) ELSE JsonText(data)

\* fetch(`${SERVER_URL}/api/blob`, ...): the request fetchData (GET) and
\* saveData (PUT) send, with the names of the headers they set
BlobRequest(method, body) ==
    [method |-> method, path |-> "/api/blob",
     headers |-> IF method = "PUT" THEN {"Content-Type", "x-api-key"} ELSE {"x-api-key"},
     body |-> body]

LineToolCall(tool, args) ==
    LET now == clock + 1
        user == Lookup(stdio.API_KEY, api_key)
        enc == Truthy(stdio.PASSPHRASE)
        raw == IF user = "" THEN Absent ELSE BlobGet(blob, user)
        ld == IF user = "" THEN Loaded(FALSE, EmptyDoc, FALSE)
              ELSE getUserData(raw, enc, stdio.PASSPHRASE, stdio.DEFAULT_DATA)
        out == IF ld.ok THEN executeTool(tool, args, ld.data, now)
               ELSE Thrown(EmptyDoc, IF user = "" THEN "Server error" ELSE "Decryption failed")
    IN /\ stdio.open
       /\ clock < MaxTransportCalls
       /\ clock' = now
       /\ blob' = IF out.store
                  THEN BlobPut(blob, user, saveData(stdio.PASSPHRASE, out.data))
                  ELSE blob
       /\ stdio' = IF ld.ok /\ ld.shared
                   THEN [stdio EXCEPT
                           !.DEFAULT_DATA = SharedAfter(tool, args, stdio.DEFAULT_DATA, out)]
                   ELSE stdio
       /\ last' = [NoCall EXCEPT !.user = user, !.surface = "line", !.tool = tool,
                                 !.args = args,
                                 !.status = IF out.ok THEN "result" ELSE "isError",
                                 !.ok = out.ok, !.stored = out.store,
                                 !.created = out.created, !.before = raw,
                                 !.overwrote = raw, !.loaded = ld.data, !.data = out.data,
                                 !.enc = enc, !.pass = stdio.PASSPHRASE, !.now = now,
                                 !.err = out.err]
       /\ reply' = [LineReply("tools/call", ToolAnswer(out.ok)) EXCEPT
                       !.sent = IF out.store
                                THEN <<BlobRequest("GET", Absent),
                                       BlobRequest("PUT", saveData(stdio.PASSPHRASE, out.data))>>
                                ELSE <<BlobRequest("GET", Absent)>>]
       /\ failures' = [failures EXCEPT !.line = @ \/ ~out.ok]
       /\ UNCHANGED <<account, DEFAULT_DATA, req, allocated, looseKeys>>
       /\ UNCHANGED <<api_key, sseConnections, conn>>

\* stdin ends: readline closes and the process exits
StdinEnd ==
    /\ stdio.open
    /\ stdio' = [stdio EXCEPT !.open = FALSE]
    /\ UNCHANGED <<blob, account, DEFAULT_DATA, clock, req, last, allocated, looseKeys>>
    /\ reply' = NoReply
    /\ UNCHANGED <<api_key, sseConnections, conn, failures>>

\* the tools the transports are exercised with: a read, a replacement by {},
\* an add, an update (NotFound on an empty graph) and a name outside the catalog
TransportTools ==
    {"cosimo_get", "cosimo_set", "cosimo_add_objective", "cosimo_update_objective",
     UnknownTool}

\* the requests without a tool that sessions are exercised with: the one that
\* throws and the one that has no response
SessionRequests ==
    {Request("tools/call", FALSE), Request("notifications/initialized", FALSE)}

\* the tools POSTed through sessions
SessionTools == TransportTools \ {"cosimo_get"}

\* the tools the local package calls while sessions are open on the server
SharedLineTools == {"cosimo_add_objective", "cosimo_update_objective"}

\* the rows the transports start from: LineUser holds the empty graph in
\* plaintext, the other account is encrypted under "p2" and its ciphertext
\* is corrupted
PresentedKeys ==
    {NoKey} \cup {Key(LineUser, n) : n \in 1..MaxKeys} \cup {Key(u, 1) : u \in Users}

TransportInit ==
    /\ blob = [u \in Users |-> IF u = LineUser THEN JsonText(EmptyGraph) ELSE Garbage(TRUE)]
    /\ account = [u \in Users |-> IF u = LineUser THEN PlainAccount ELSE SealedAccount("p2")]
    /\ DEFAULT_DATA = EmptyGraph
    /\ clock = 0
    /\ req = [s \in Slots |-> IdleSlot]
    /\ last = NoCall
    /\ allocated = NoHistory
    /\ looseKeys = {}
    /\ NetInit

\* the server with its sessions, the account routes, and tool calls arriving
\* through sessions and from the local package
SessionNext ==
    \/ \E c \in ConnIds, key \in PresentedKeys, passphrase \in Passphrases \cup {NoPassphrase} :
          OpenBegin(c, key, passphrase)
    \/ \E c \in ConnIds : OpenFinish(c)
    \/ \E c \in ConnIds : Close(c)
    \/ \E c \in ConnIds : Ping(c)
    \/ \E c \in ConnIds : PostRejected(c)
    \/ \E c \in ConnIds, request \in SessionRequests : PostPlain(c, request)
    \/ \E c \in ConnIds, tool \in SessionTools : \E args \in ArgsOf(tool) :
          PostToolCall(c, tool, args)
    \/ \E s \in Slots : Load(s)
    \/ \E s \in Slots : Compute(s)
    \/ \E s \in Slots : Store(s)
    \/ \E s \in Slots : StoreFails(s)
    \/ RegenerateKey(LineUser)
    \/ EnableEncryption(LineUser, "p1")
    \/ \E tool \in SharedLineTools : \E args \in ArgsOf(tool) : LineToolCall(tool, args)

SpecSession == TransportInit /\ [][SessionNext]_vars

\* the local package alone: lines on stdin, against the row of its user
LineNext ==
    \/ \E input \in LineInputs : Line(input)
    \/ \E tool \in TransportTools : \E args \in ArgsOf(tool) : LineToolCall(tool, args)
    \/ StdinEnd
    \/ RegenerateKey(LineUser)
    \/ EnableEncryption(LineUser, "p1")

SpecLine == TransportInit /\ [][LineNext]_vars

\* --------------------------------------------------------------------------
\* Updates of ids that are not there

\* the call that has just answered loaded a graph and is an update whose id
\* is not in the list the tool searches
UpdateMisses(call, tool, member, items) ==
    /\ call.tool = tool
    /\ call.err # "Decryption failed"
    /\ call.status \notin {"PASSPHRASE_REQUIRED", "INVALID_PASSPHRASE"}
    /\ ~(member \in call.loaded.has /\ HasId(items, call.args.id))

\* the answer of an update that did not find its id: NotFound (isError over
\* JSON-RPC, 404 over HTTP), nothing stored
AnsweredNotFound(call, err) ==
    /\ call.err = err
    /\ ~call.ok
    /\ ~call.stored
    /\ call.status \in {"isError", "404"}

LineAnswered(r, input) == r.transport = "line" /\ r.input = input

\* C12: a line that is no JSON is answered by exactly one line, a JSON-RPC
\* error with code -32700 and id null; the step reads and writes no blob and
\* leaves the transport open.
C12_UnparsableLine ==
    [][LineAnswered(reply', "unparsable")
        => /\ reply'.lines = 1
           /\ reply'.envelope = "error"
           /\ reply'.code = -32700
           /\ reply'.id = "null"
           /\ blob' = blob /\ last' = last /\ clock' = clock
           /\ stdio.open /\ stdio' = stdio]_vars

\* C12 witness: after a line that was no JSON, a tools/call line ran its tool
\* and was answered.
C12_Witness ==
    /\ failures.garbled
    /\ LineAnswered(reply, "tools/call")
    /\ last.surface = "line" /\ last.ok /\ last.stored
    /\ stdio.open

\* C13: every line is answered by at most one line: none for
\* notifications/initialized, exactly one for every other line.
C13_OneLineOut ==
    reply.transport = "line"
        => reply.lines = IF reply.input = "notifications/initialized" THEN 0 ELSE 1

\* C13 witness: a notifications/initialized line was taken and nothing was
\* written for it.
C13_Witness ==
    /\ LineAnswered(reply, "notifications/initialized")
    /\ reply.lines = 0
    /\ reply.envelope = "none"

\* --------------------------------------------------------------------------
\* Answers to tools/call

\* C11: every tools/call request, on either transport, with or without
\* params, is answered by a success envelope (a result member, no error
\* member); failure shows only as result.isError.
C11_ToolsCallAnswersResult ==
    reply.input = "tools/call" => (reply.envelope = "result" /\ reply.code = 0)

\* --------------------------------------------------------------------------
\* Sessions

\* the step hands a POST for session c to handleJsonRpc: a tool call begins,
\* or a request without a tool is answered
Dispatches(c) ==
    \/ req[1].pc = "idle" /\ req'[1].pc = "begun" /\ req'[1].call.session = c
    \/ /\ reply' # reply
       /\ reply'.transport = "sse" /\ reply'.session = c
       /\ reply'.input \in Methods
       /\ req' = req

\* the step answers a POST for session c with 400
Rejects(c) ==
    reply'.transport = "sse" /\ reply'.session = c /\ reply'.input = "post"
        /\ reply'.status = 400

\* C14: a POST is dispatched only while its session id is in the registry and
\* its connection has not closed; any other POST is answered 400 and reads or
\* writes no blob.
C14_PostNeedsLiveSession ==
    [][\A c \in ConnIds :
          /\ Dispatches(c) => (c \in DOMAIN sseConnections /\ conn[c].alive)
          /\ Rejects(c) => (blob' = blob /\ req' = req /\ last' = last)]_vars

\* C15: a session's ping timer is active exactly when its id is in the
\* registry; the timer is cancelled once when the connection closes and the
\* id evicted, so no timer or entry outlives its connection and no ping is
\* written after the close.
C15_TornDownOnClose ==
    \A c \in ConnIds :
        /\ conn[c].timer <=> c \in DOMAIN sseConnections
        /\ conn[c].cancels <= 1
        /\ c \in DOMAIN sseConnections => conn[c].alive
        /\ ~conn[c].latePing

\* the key session c presented resolves to a user now and, if that user's
\* encryption flag is set now, the passphrase presented verifies
Authorised(c) ==
    LET user == Lookup(conn[c].apiKey, api_key) IN
    /\ user # ""
    /\ account[user].encryption_enabled
          => /\ Truthy(conn[c].passphrase)
             /\ verifyPassphrase(conn[c].passphrase, account[user].passphrase_hash)

\* C16: a registry entry is created (and the stream opened) only for a key
\* that resolves to a user and, when that user's encryption flag is set at
\* that moment, a passphrase that was presented and verifies; every other
\* GET /mcp ends with 401 and leaves the registry as it was.
C16_StreamOnlyIfAuthorised ==
    [][\A c \in ConnIds :
          /\ (c \notin DOMAIN sseConnections /\ c \in DOMAIN sseConnections')
                => /\ Authorised(c)
                   /\ sseConnections'[c].userId = Lookup(conn[c].apiKey, api_key)
                   /\ conn'[c].phase = "streaming"
                   /\ reply' = HttpReply("open", c, 200)
          /\ (conn[c].phase = "pending" /\ conn'[c].phase # "pending" /\ ~Authorised(c))
                => /\ reply' = HttpReply("open", c, 401)
                   /\ conn'[c].phase = "refused"
                   /\ sseConnections' = sseConnections
          /\ (conn[c].phase = "idle" /\ conn'[c].phase = "refused")
                => /\ reply' = HttpReply("open", c, 401)
                   /\ sseConnections' = sseConnections]_vars

\* C16 witness: a stream is open for an account whose encryption flag was set
\* when it opened, so the passphrase was checked.
C16_Witness ==
    \E c \in DOMAIN sseConnections :
        /\ sseConnections[c].encryptionEnabled
        /\ sseConnections[c].passphrase = "p1"
        /\ conn[c].phase = "streaming"
        /\ reply = HttpReply("open", c, 200)

\* C17: a tool call dispatched through a session runs under the userId, the
\* encryption flag and the passphrase that were put in the registry when the
\* stream opened: the entry never changes while it is registered, the call
\* takes its three values from it, and its store goes to that user's row in
\* the encoding the captured flag selects, whatever happened to the account
\* since.
C17_CallsUseCapturedContext ==
    [][/\ \A c \in DOMAIN sseConnections \cap DOMAIN sseConnections' :
             sseConnections'[c] = sseConnections[c]
       /\ \A c \in ConnIds :
             (req[1].pc = "idle" /\ req'[1].pc = "begun" /\ req'[1].call.session = c)
                => /\ c \in DOMAIN sseConnections
                   /\ req'[1].call.user = sseConnections[c].userId
                   /\ req'[1].call.enc = sseConnections[c].encryptionEnabled
                   /\ req'[1].call.pass = sseConnections[c].passphrase
       /\ (req[1].pc # "idle" /\ req'[1].pc # "idle")
             => /\ req'[1].call.user = req[1].call.user
                /\ req'[1].call.enc = req[1].call.enc
                /\ req'[1].call.pass = req[1].call.pass
       /\ (req[1].pc = "computed" /\ req'[1].pc = "idle" /\ last'.stored
              /\ req[1].call.session # 0)
             => /\ last'.user = req[1].call.user
                /\ blob'[last'.user].kind = IF req[1].call.enc THEN "sealed" ELSE "json"
                /\ req[1].call.enc => blob'[last'.user].key = req[1].call.pass
                /\ \A u \in Users \ {last'.user} : blob'[u] = blob[u]]_vars

\* C17 witness: a session opened before the account enabled encryption and
\* regenerated its API key has stored plaintext JSON into the row of the user
\* it was opened for.
C17_Witness ==
    /\ last.session # 0
    /\ last.stored
    /\ ~last.enc
    /\ account[last.user].encryption_enabled
    /\ api_key[last.user] > 1
    /\ blob[last.user].kind = "json"

\* --------------------------------------------------------------------------
\* Failing and orphaned calls

\* C18: a tools/call that fails in its tool (NotFound, UnknownTool,
\* DecryptionFailed, a malformed graph, a rejected store) is answered as a
\* result with isError and ends nothing: the registry and the connections are
\* as they were, resp. the line transport is still open.
C18_FailureEndsNothing ==
    [][/\ (req[1].pc # "idle" /\ req'[1].pc = "idle" /\ req[1].call.session # 0
              /\ ~last'.ok)
             => /\ sseConnections' = sseConnections
                /\ conn' = conn
                /\ stdio' = stdio
                /\ reply'.transport = "sse" /\ reply'.session = req[1].call.session
                /\ reply'.status = 200
                /\ reply'.envelope = "result" /\ reply'.isError
       /\ (last' # last /\ last'.surface = "line" /\ ~last'.ok)
             => /\ stdio.open /\ stdio'.open
                /\ sseConnections' = sseConnections
                /\ conn' = conn
                /\ reply'.transport = "line" /\ reply'.lines = 1
                /\ reply'.envelope = "result" /\ reply'.isError]_vars

\* C18 witness: in a session where a tools/call had failed, a later tools/call
\* ran, stored and was answered as a plain result.
C18_Witness ==
    /\ last.session # 0
    /\ last.session \in failures.sse
    /\ last.session \in DOMAIN sseConnections
    /\ last.ok /\ last.stored
    /\ reply.transport = "sse" /\ reply.session = last.session
    /\ reply.envelope = "result" /\ ~reply.isError

\* C19: the close of a connection leaves the calls in flight as they are, a
\* call that has computed its store can always perform it, and the store of
\* a call whose session is gone writes the graph the call computed.
C19_CloseDoesNotAbort ==
    /\ [](\A s \in Slots : req[s].pc = "computed" => ENABLED Store(s))
    /\ [][/\ (\E c \in ConnIds : conn[c].alive /\ ~conn'[c].alive)
                => (req' = req /\ blob' = blob /\ last' = last)
          /\ (req[1].pc = "computed" /\ req'[1].pc = "idle" /\ last'.stored)
                => /\ blob'[last'.user] = req[1].payload
                   /\ ~req[1].call.enc => blob'[last'.user] = JsonText(last'.data)]_vars

\* C19 witness: the connection of a session closed while its add-objective
\* call had loaded the blob and had not stored; the store took place and the
\* stored graph has the new objective.
C19_Witness ==
    /\ last.session # 0
    /\ conn[last.session].midCall
    /\ last.session \notin DOMAIN sseConnections
    /\ last.tool = "cosimo_add_objective"
    /\ last.ok /\ last.stored
    /\ blob[last.user] = JsonText(last.data)
    /\ HasId(blob[last.user].doc.objectives, last.created)

\* --------------------------------------------------------------------------
\* The catalog and the switch

\* the latest call reached the switch of its dispatcher: it was not refused
\* by mcpAuth and its load did not fail
ReachedSwitch(call) ==
    /\ call.surface \in Surfaces
    /\ call.status \notin {"none", "PASSPHRASE_REQUIRED", "INVALID_PASSPHRASE"}
    /\ call.err # "Decryption failed"

NoObjectiveRemoved ==
    Len(CurrentGraph(EngineUser).objectives) = Len(allocated.obj)

\* C22: from the empty graph, as long as no objective is deleted, the k-th
\* addObjective is given obj-k, whatever updates and whatever adds and
\* deletes of deliverables ran in between.
C22_KthObjectiveIsObjK ==
    NoObjectiveRemoved
        => \A k \in 1..Len(allocated.obj) : allocated.obj[k] = ObjId(k)

\* C22 witness: between the first and the second addObjective a deliverable
\* was added and deleted again; the ids handed out are obj-1 and obj-2.
C22_Witness ==
    /\ allocated.obj = <<ObjId(1), ObjId(2)>>
    /\ Len(allocated.del) >= 1
    /\ Len(CurrentGraph(EngineUser).deliverables) = 0
    /\ NoObjectiveRemoved
    /\ last.tool = "cosimo_add_objective"

\* the entity with the given id in a list of the document a row holds
StoredEntity(items, id) == items[FindById(items, id)]

\* C24: updateDeliverable with feasibility 0 (resp. updateObjective with
\* urgency 0) on an existing entity sets the field to 0 whatever it was, and
\* the stored graph carries 0.
C24_ZeroScoreIsApplied ==
    /\ (last.ok /\ last.tool = "cosimo_update_deliverable" /\ last.args.feasibility = 0)
          => /\ last.stored
             /\ blob[last.user].doc = JsonText(last.data).doc
             /\ HasId(blob[last.user].doc.deliverables, last.args.id)
             /\ StoredEntity(blob[last.user].doc.deliverables, last.args.id).feasibility = 0
    /\ (last.ok /\ last.tool = "cosimo_update_objective" /\ last.args.urgency = 0)
          => /\ last.stored
             /\ blob[last.user].doc = JsonText(last.data).doc
             /\ HasId(blob[last.user].doc.objectives, last.args.id)
             /\ StoredEntity(blob[last.user].doc.objectives, last.args.id).urgency = 0

\* C24 witness: a deliverable whose feasibility was 50 was updated with
\* feasibility 0 and the row now holds 0 for it.
C24_Witness ==
    /\ last.ok /\ last.tool = "cosimo_update_deliverable" /\ last.args.feasibility = 0
    /\ StoredEntity(last.loaded.deliverables, last.args.id).feasibility = 50
    /\ StoredEntity(blob[last.user].doc.deliverables, last.args.id).feasibility = 0

\* the last call was a successful cosimo_add_deliverable
AddedDeliverable == last.ok /\ last.tool = "cosimo_add_deliverable"

\* the graph in the row after the last call
StoredGraph == blob[last.user].doc

\* the deliverable the last cosimo_add_deliverable pushed
PushedDeliverable == StoredGraph.deliverables[Len(StoredGraph.deliverables)]

\* C26: addDeliverable with the objectiveId of an existing objective appends a
\* deliverable whose linkedObjectives is exactly [objectiveId], appends the new
\* id as the last element of that objective's linkedDeliverables, and sets
\* relationships["<objectiveId>:<newId>"] when a non-empty relationship is
\* given; it adds no relationship entry when none is given.
C26_AddDeliverableLinksBothWays ==
    (AddedDeliverable /\ HasId(last.loaded.objectives, last.args.objectiveId))
        => LET oid == last.args.objectiveId
               obj == FindById(last.loaded.objectives, oid)
               key == RelKey(oid, last.created)
           IN /\ last.stored
              /\ Len(StoredGraph.deliverables) = Len(last.loaded.deliverables) + 1
              /\ SubSeq(StoredGraph.deliverables, 1, Len(last.loaded.deliverables))
                    = last.loaded.deliverables
              /\ PushedDeliverable.id = last.created
              /\ PushedDeliverable.linkedObjectives = <<oid>>
              /\ StoredGraph.objectives[obj].id = oid
              /\ StoredGraph.objectives[obj].linkedDeliverables
                    = Append(last.loaded.objectives[obj].linkedDeliverables, last.created)
              /\ IF Truthy(last.args.relationship)
                 THEN /\ key \in DOMAIN StoredGraph.relationships
                      /\ StoredGraph.relationships[key] = last.args.relationship
                 ELSE StoredGraph.relationships = last.loaded.relationships

\* C26 witness: a second deliverable was linked to an objective that already
\* had one, with a relationship text.
C26_Witness ==
    /\ AddedDeliverable /\ Truthy(last.args.relationship)
    /\ HasId(last.loaded.objectives, last.args.objectiveId)
    /\ Len(StoredEntity(StoredGraph.objectives, last.args.objectiveId).linkedDeliverables) = 2
    /\ RelKey(last.args.objectiveId, last.created) \in DOMAIN StoredGraph.relationships

\* C27: addDeliverable with an objectiveId that names no existing objective
\* still succeeds: the deliverable is created and stored with
\* linkedObjectives = [objectiveId], and no objective is modified.
C27_AddDeliverableWithoutObjective ==
    /\ (AddedDeliverable /\ ~HasId(last.loaded.objectives, last.args.objectiveId))
          => /\ last.stored
             /\ PushedDeliverable.id = last.created
             /\ PushedDeliverable.linkedObjectives = <<last.args.objectiveId>>
             /\ StoredGraph.objectives = last.loaded.objectives
    /\ (last.tool = "cosimo_add_deliverable" /\ last.surface \in Surfaces) => last.ok

\* C27 witness: a deliverable was added for obj-2 while the graph held obj-1 only.
C27_Witness ==
    /\ AddedDeliverable /\ last.args.objectiveId = ObjId(2)
    /\ Len(last.loaded.objectives) = 1 /\ last.loaded.objectives[1].id = ObjId(1)
    /\ PushedDeliverable.linkedObjectives = <<ObjId(2)>>

\* the last call was a cosimo_delete of an id with neither prefix
DeletedOtherPrefix ==
    /\ last.tool = "cosimo_delete" /\ last.surface \in Surfaces
    /\ ~startsWith(last.args.id, OBJ) /\ ~startsWith(last.args.id, DEL)

\* C29: delete(id) with an id whose prefix is neither obj- nor del- succeeds
\* and leaves objectives, deliverables, link arrays and relationships
\* unchanged; only lastUpdated changes and the graph is stored.
C29_OtherPrefixDeletesNothing ==
    DeletedOtherPrefix
        => /\ last.ok /\ last.stored
           /\ StoredGraph = [last.loaded EXCEPT !.lastUpdated = last.now]

\* C29 witness: delete("x-1") on a graph with an objective, a deliverable and
\* a relationship.
C29_Witness ==
    /\ DeletedOtherPrefix /\ last.ok
    /\ Len(StoredGraph.objectives) >= 1 /\ Len(StoredGraph.deliverables) >= 1
    /\ DOMAIN StoredGraph.relationships # {}
    /\ StoredGraph.lastUpdated # last.loaded.lastUpdated

\* the step is a request to /mcp/execute for an account with encryption enabled
SealedExecuteStep ==
    /\ clock' # clock
    /\ last'.surface = "http"
    /\ account[last'.user].encryption_enabled

\* the step answered 401 without running the handler: no row was read,
\* decrypted or written
RefusedUntouched(code) ==
    /\ last'.status = code
    /\ last'.tool = "" /\ last'.loaded = EmptyDoc /\ ~last'.stored
    /\ blob' = blob /\ DEFAULT_DATA' = DEFAULT_DATA

\* C30: for an account with encryption enabled, /execute refuses a request
\* with no passphrase with code PASSPHRASE_REQUIRED and a request whose
\* passphrase does not verify with code INVALID_PASSPHRASE, and in both cases
\* no blob is read, decrypted or written.
C30_PassphraseFailuresAreDistinct ==
    [][SealedExecuteStep
         => LET acct == account[last'.user] IN
            /\ last'.pass = NoPassphrase => RefusedUntouched("PASSPHRASE_REQUIRED")
            /\ (last'.pass # NoPassphrase
                  /\ ~verifyPassphrase(last'.pass, acct.passphrase_hash))
                 => RefusedUntouched("INVALID_PASSPHRASE")]_vars

\* C30 witness: a request with a wrong passphrase was refused with
\* INVALID_PASSPHRASE after a request had stored a sealed row for that user.
C30_Witness ==
    /\ last.surface = "http" /\ last.status = "INVALID_PASSPHRASE"
    /\ last.pass \in Passphrases
    /\ account[last.user].encryption_enabled
    /\ blob[last.user].kind = "sealed" /\ blob[last.user] = last.before
    /\ clock >= 2

---------------------------------------------------------------------------
(* The tool switch with replace: documents a client hands to cosimo_set,   *)
(* and updates that carry several fields                                    *)

MaxOpsCalls == 3

\* an objective whose id has a non-numeric suffix: "obj-x"
BadSuffixObjective == [ForeignObjective EXCEPT !.id = OBJ \o <<"x">>]

\* an objective whose id has no suffix: "obj"
NoSuffixObjective == [ForeignObjective EXCEPT !.id = <<"o", "b", "j">>]

SecondObjective == [ForeignObjective EXCEPT !.id = ObjId(2)]

SeedObjectiveArgs ==
    [NoArgs EXCEPT !.title = "T", !.description = "D", !.urgency = 70,
                   !.deadline = "2030-01-01", !.impact = "high"]

SeedDeliverableArgs ==
    [NoArgs EXCEPT !.title = "T", !.description = "D", !.feasibility = 60,
                   !.complexity = "low", !.objectiveId = ObjId(1),
                   !.relationship = "R", !.available_after = "2029-01-01",
                   !.due_before = "2029-06-01"]

\* the graph after addObjective and addDeliverable on the empty graph
SeededGraph ==
    AddDeliverableTool(AddObjectiveTool(EmptyGraph, SeedObjectiveArgs, 0).data,
                       SeedDeliverableArgs, 0).data

\* a document whose ids have one another as string prefixes: obj-1 and
\* obj-10, del-1 and del-11, each objective linked to each deliverable
PrefixGraph ==
    LET objs == <<ObjId(1), ObjId(10)>>
        dels == <<DelId(1), DelId(11)>>
        keys == {RelKey(o, d) : o \in {ObjId(1), ObjId(10)}, d \in {DelId(1), DelId(11)}}
    IN Graph([i \in 1..2 |-> [ForeignObjective EXCEPT !.id = objs[i],
                                                       !.linkedDeliverables = dels]],
             [i \in 1..2 |-> [SeededGraph.deliverables[1] EXCEPT
                                 !.id = dels[i], !.linkedObjectives = objs]],
             [k \in keys |-> "R"], 0)

OpsDocs ==
    {EmptyDoc, PrefixGraph,
     Graph(<<ForeignObjective>>, <<>>, EmptyRel, 0),
     Graph(<<BadSuffixObjective, SecondObjective>>, <<>>, EmptyRel, 0),
     Graph(<<NoSuffixObjective>>, <<>>, EmptyRel, 0)}

OpsArgsOf(tool) ==
    CASE tool = "cosimo_set" -> {[NoArgs EXCEPT !.data = d] : d \in OpsDocs}
      [] tool = "cosimo_add_objective" -> {[NoArgs EXCEPT !.title = "T"]}
      [] tool = "cosimo_add_deliverable" ->
            {[NoArgs EXCEPT !.title = "T", !.objectiveId = ObjId(1), !.relationship = "R"]}
      [] tool = "cosimo_update_objective" ->
            {[NoArgs EXCEPT !.id = i, !.title = "T2", !.description = ""] :
                i \in ObjectiveIds}
            \cup {[NoArgs EXCEPT !.id = i, !.urgency = 0, !.deadline = "",
                                 !.impact = "low"] : i \in ObjectiveIds}
      [] tool = "cosimo_update_deliverable" ->
            {[NoArgs EXCEPT !.id = DelId(1), !.title = "T2", !.description = ""],
             [NoArgs EXCEPT !.id = DelId(1), !.feasibility = 0, !.complexity = "",
                            !.available_after = "", !.due_before = "2029-09-01"]}
      [] tool = "cosimo_delete" ->
            {[NoArgs EXCEPT !.id = i] : i \in {ObjId(1), DelId(1), OtherId}}

OpsInit ==
    /\ \E seeded \in BOOLEAN :
          /\ blob = [u \in Users |->
                        IF u # EngineUser THEN Absent
                        ELSE IF seeded THEN JsonText(SeededGraph)
                        ELSE JsonText(EmptyGraph)]
          /\ allocated = IF seeded THEN [obj |-> <<ObjId(1)>>, del |-> <<DelId(1)>>]
                         ELSE NoHistory
    /\ account = [u \in Users |-> PlainAccount]
    /\ DEFAULT_DATA = EmptyGraph
    /\ clock = 0
    /\ req = [s \in Slots |-> IdleSlot]
    /\ last = NoCall
    /\ looseKeys = {}
    /\ NetInit

OpsCall(tool, args) ==
    /\ clock < MaxOpsCalls
    /\ EngineCall(tool, args)

OpsReplace ==
    \E args \in OpsArgsOf("cosimo_set") : OpsCall("cosimo_set", args)

OpsAddObjective ==
    \E args \in OpsArgsOf("cosimo_add_objective") : OpsCall("cosimo_add_objective", args)

OpsAddDeliverable ==
    \E args \in OpsArgsOf("cosimo_add_deliverable") : OpsCall("cosimo_add_deliverable", args)

OpsUpdateObjective ==
    \E args \in OpsArgsOf("cosimo_update_objective") : OpsCall("cosimo_update_objective", args)

OpsUpdateDeliverable ==
    \E args \in OpsArgsOf("cosimo_update_deliverable") : OpsCall("cosimo_update_deliverable", args)

OpsDelete ==
    \E args \in OpsArgsOf("cosimo_delete") : OpsCall("cosimo_delete", args)

OpsNext ==
    \/ OpsReplace
    \/ OpsAddObjective
    \/ OpsAddDeliverable
    \/ OpsUpdateObjective
    \/ OpsUpdateDeliverable
    \/ OpsDelete

SpecOps == OpsInit /\ [][OpsNext]_vars

\* some id of the collection has a suffix parseInt reads no number from
HasMalformedId(items) ==
    \E i \in 1..Len(items) : parseInt(SplitDash1(items[i].id)) = NaN

\* the last call was a cosimo_add_objective on a graph with a malformed
\* objective id
AddedBesideMalformedId ==
    /\ last.tool = "cosimo_add_objective" /\ last.surface \in Surfaces
    /\ "objectives" \in last.loaded.has
    /\ HasMalformedId(last.loaded.objectives)

\* C23: when the graph contains an objective whose id has a non-numeric or
\* missing suffix, addObjective does not fail, counts that id as 0 in the max
\* computation, allocates obj-(m+1) where m is the largest numeric suffix
\* among well-formed ids, and the new id differs from every id already in the
\* collection.
C23_MalformedIdsCountAsZero ==
    AddedBesideMalformedId
        => LET objs == last.loaded.objectives
               suffix(i) == parseInt(SplitDash1(objs[i].id))
               counted == {IF suffix(i) = NaN THEN 0 ELSE suffix(i) : i \in 1..Len(objs)}
               m == CHOOSE x \in counted : \A y \in counted : y <= x
           IN /\ last.ok
              /\ last.created = ObjId(m + 1)
              /\ ~HasId(objs, last.created)

\* Object.assign(target, { ...(v && { f: v }) }) for a text field f
MergedText(old, args, f) == IF Truthy(args[f]) THEN args[f] ELSE old[f]

\* Object.assign(target, { ...(v !== undefined && { f: v }) }) for a score f
MergedScore(old, args, f) == IF args[f] # UndefNum THEN args[f] ELSE old[f]

\* every element but the one at index i is the same in both lists
SameBut(before, after, i) ==
    /\ Len(after) = Len(before)
    /\ \A j \in 1..Len(before) : j # i => after[j] = before[j]

\* C25: a successful updateObjective/updateDeliverable changes only the
\* target's fields whose argument is present and truthy (urgency/feasibility:
\* defined), plus lastUpdated; the target's id and link array, every absent or
\* empty-string field, every other objective and deliverable, and the
\* relationships map are unchanged.
C25_UpdateFrame ==
    /\ (last.ok /\ last.tool = "cosimo_update_objective")
          => LET i == FindById(last.loaded.objectives, last.args.id)
                 old == last.loaded.objectives[i]
                 new == StoredGraph.objectives[i]
             IN /\ SameBut(last.loaded.objectives, StoredGraph.objectives, i)
                /\ new.id = old.id /\ new.linkedDeliverables = old.linkedDeliverables
                /\ \A f \in {"title", "description", "deadline", "impact"} :
                      new[f] = MergedText(old, last.args, f)
                /\ new.urgency = MergedScore(old, last.args, "urgency")
                /\ DOMAIN new = DOMAIN old
                /\ StoredGraph.deliverables = last.loaded.deliverables
                /\ StoredGraph.relationships = last.loaded.relationships
                /\ StoredGraph.lastUpdated = last.now
    /\ (last.ok /\ last.tool = "cosimo_update_deliverable")
          => LET i == FindById(last.loaded.deliverables, last.args.id)
                 old == last.loaded.deliverables[i]
                 new == StoredGraph.deliverables[i]
             IN /\ SameBut(last.loaded.deliverables, StoredGraph.deliverables, i)
                /\ new.id = old.id /\ new.linkedObjectives = old.linkedObjectives
                /\ new.blockers = old.blockers
                /\ \A f \in {"title", "description", "complexity", "available_after",
                             "due_before"} :
                      new[f] = MergedText(old, last.args, f)
                /\ new.feasibility = MergedScore(old, last.args, "feasibility")
                /\ DOMAIN new = DOMAIN old
                /\ StoredGraph.objectives = last.loaded.objectives
                /\ StoredGraph.relationships = last.loaded.relationships
                /\ StoredGraph.lastUpdated = last.now

\* C25 witness: an objective with description "D", a linked deliverable and a
\* relationship was updated with a new title and an empty description: the
\* title changed and the description stayed.
C25_Witness ==
    /\ last.ok /\ last.tool = "cosimo_update_objective"
    /\ last.args.title = "T2" /\ last.args.description = ""
    /\ LET old == StoredEntity(last.loaded.objectives, last.args.id)
           new == StoredEntity(StoredGraph.objectives, last.args.id)
       IN /\ old.title = "T" /\ old.description = "D" /\ Len(old.linkedDeliverables) >= 1
          /\ new.title = "T2" /\ new.description = "D"
    /\ DOMAIN StoredGraph.relationships # {}
    /\ Len(StoredGraph.objectives) >= 2

\* the last call was a cosimo_set whose load returned
Replaced ==
    /\ last.tool = "cosimo_set" /\ last.surface \in Surfaces
    /\ last.err # "Decryption failed"

---------------------------------------------------------------------------
(* The cipher alone: encryptData and the two decryptData (crypto.js of the  *)
(* server, and the copy in the local MCP package)                           *)

\* an envelope whose ciphertext or tag bytes were changed after sealing
Tampered(b) == [b EXCEPT !.kind = "tampered"]

\* an envelope cut off before its authentication tag: at most
\* SALT_LENGTH + IV_LENGTH bytes are left
Truncated(b) == [b EXCEPT !.kind = "truncated", !.long = FALSE]

AuthFailure == "Unsupported state or unable to authenticate data"
TagLengthFailure == "Invalid authentication tag length: 0"
DecryptionFailed == "Decryption failed - invalid passphrase or corrupted data"

\* the body of decryptData: what node's crypto throws, "" when nothing is
\* thrown. setAuthTag refuses an empty tag; decipher.final() refuses a tag
\* that does not authenticate the ciphertext under the derived key.
CipherFault(b, passphrase) ==
    IF b.kind = "truncated" THEN TagLengthFailure
    ELSE IF b.kind = "sealed" /\ b.key = passphrase THEN ""
    ELSE AuthFailure

\* decryptData of the server's crypto.js: try { ... } catch { throw new Error(...) }
serverDecryptData(b, passphrase) ==
    LET fault == CipherFault(b, passphrase) IN
    [ok |-> fault = "", data |-> IF fault = "" THEN b.doc ELSE EmptyDoc,
     err |-> IF fault = "" THEN "" ELSE DecryptionFailed]

\* decryptData of the local package: the same statements without try/catch
localDecryptData(b, passphrase) ==
    LET fault == CipherFault(b, passphrase) IN
    [ok |-> fault = "", data |-> IF fault = "" THEN b.doc ELSE EmptyDoc, err |-> fault]

CipherUser == "A"

\* documents handed to encryptData
CipherDocs == {EmptyGraph, SeededGraph, EmptyDoc}

CipherInit ==
    /\ \E g \in CipherDocs, p \in Passphrases :
          blob = [u \in Users |-> IF u = CipherUser THEN encryptData(g, p) ELSE Absent]
    /\ account = [u \in Users |-> PlainAccount]
    /\ DEFAULT_DATA = EmptyGraph
    /\ clock = 0
    /\ req = [s \in Slots |-> IdleSlot]
    /\ last = NoCall
    /\ allocated = NoHistory
    /\ looseKeys = {}
    /\ NetInit

CipherFrame == UNCHANGED <<account, DEFAULT_DATA, clock, req, allocated, looseKeys, net>>

\* encryptData(g, p), the result kept as the envelope
Seal(g, p) ==
    /\ blob' = [blob EXCEPT ![CipherUser] = encryptData(g, p)]
    /\ last' = [NoCall EXCEPT !.user = CipherUser, !.surface = "cipher", !.tool = "seal",
                              !.pass = p, !.data = g, !.ok = TRUE]
    /\ CipherFrame

\* a byte of the ciphertext or of the tag is flipped
Tamper ==
    /\ blob[CipherUser].kind = "sealed"
    /\ blob' = [blob EXCEPT ![CipherUser] = Tampered(@)]
    /\ UNCHANGED last
    /\ CipherFrame

\* the envelope is cut off before the tag
Truncate ==
    /\ blob[CipherUser].kind # "truncated"
    /\ blob' = [blob EXCEPT ![CipherUser] = Truncated(@)]
    /\ UNCHANGED last
    /\ CipherFrame

Opening(impl, p, res) ==
    /\ last' = [NoCall EXCEPT !.user = CipherUser, !.surface = impl, !.tool = "open",
                              !.pass = p, !.before = blob[CipherUser], !.ok = res.ok,
                              !.loaded = res.data, !.err = res.err]
    /\ UNCHANGED blob
    /\ CipherFrame

ServerOpen(p) == Opening("server", p, serverDecryptData(blob[CipherUser], p))

LocalOpen(p) == Opening("local", p, localDecryptData(blob[CipherUser], p))

CipherNext ==
    \/ \E g \in CipherDocs, p \in Passphrases : Seal(g, p)
    \/ Tamper
    \/ Truncate
    \/ \E p \in Passphrases : ServerOpen(p)
    \/ \E p \in Passphrases : LocalOpen(p)

SpecCipher == CipherInit /\ [][CipherNext]_vars

\* the last step was a decryptData that threw
OpenFailed(call) == call.tool = "open" /\ ~call.ok

\* C31: open reports one and the same generic DecryptionFailed error for a
\* wrong passphrase, a tampered ciphertext or tag, and a structurally
\* malformed envelope, in the server and in the local package: two failed
\* opens of one implementation never differ in their error, and the error is
\* the generic one.
C31_FailuresIndistinguishable ==
    [][(OpenFailed(last'))
          => /\ last'.err = DecryptionFailed
             /\ (OpenFailed(last) /\ last.surface = last'.surface)
                   => last'.err = last.err]_vars

---------------------------------------------------------------------------
(* The local MCP package started with COSIMO_PASSPHRASE set                 *)

LocalPassphrase == "p1"

\* the rows the package may find on the server: none yet, plain JSON written
\* before the passphrase was configured, an envelope under the configured
\* passphrase, an envelope under another one
LocalRows ==
    {Absent, JsonText(EmptyGraph), encryptData(SeededGraph, LocalPassphrase),
     encryptData(EmptyGraph, "p2")}

LocalInit ==
    /\ \E row \in LocalRows :
          blob = [u \in Users |-> IF u = LineUser THEN row ELSE Absent]
    /\ account = [u \in Users |-> PlainAccount]
    /\ DEFAULT_DATA = EmptyGraph
    /\ clock = 0
    /\ req = [s \in Slots |-> IdleSlot]
    /\ last = NoCall
    /\ allocated = NoHistory
    /\ looseKeys = {}
    /\ api_key = [u \in Users |-> 1]
    /\ sseConnections = <<>>
    /\ conn = [c \in ConnIds |-> IdleConn]
    /\ stdio = [StdioStart EXCEPT !.PASSPHRASE = LocalPassphrase]
    /\ reply = NoReply
    /\ failures = NoFailures

LocalNext ==
    \/ \E input \in LineInputs : Line(input)
    \/ \E tool \in TransportTools : \E args \in ArgsOf(tool) : LineToolCall(tool, args)
    \/ StdinEnd
    \/ RegenerateKey(LineUser)

SpecLocal == LocalInit /\ [][LocalNext]_vars

\* C33: with COSIMO_PASSPHRASE set, every blob the local package PUTs to the
\* server after any tool call is a sealed envelope, never plaintext JSON, and
\* the passphrase is not part of any request it sends: no request has an
\* x-passphrase header or a query string, and a PUT body is the envelope.
C33_LocalPackageSendsOnlyEnvelopes ==
    /\ \A i \in 1..Len(reply.sent) :
          LET r == reply.sent[i] IN
          /\ "x-passphrase" \notin r.headers
          /\ r.path = "/api/blob"
          /\ r.method = "PUT"
                => /\ r.body.kind = "sealed"
                   /\ r.body = encryptData(last.data, stdio.PASSPHRASE)
                   /\ blob[last.user] = r.body
    /\ (last.surface = "line" /\ last.stored) => blob[last.user].kind = "sealed"
    /\ blob[LineUser].kind = "json" => blob[LineUser] = JsonText(EmptyGraph)

\* C33 witness: a tool call found plain JSON on the server and PUT an
\* envelope in its place.
C33_Witness ==
    /\ last.surface = "line" /\ last.stored /\ last.before.kind = "json"
    /\ Len(reply.sent) = 2 /\ reply.sent[2].method = "PUT"
    /\ reply.sent[2].body.kind = "sealed"
    /\ blob[last.user].kind = "sealed" /\ blob[last.user].key = LocalPassphrase

---------------------------------------------------------------------------
(* The tool switch from the empty graph, every addDeliverable naming an     *)
(* objective that exists when it is called                                  *)

LinkedAddDeliverable ==
    \E args \in EngineArgsOf("cosimo_add_deliverable") :
        /\ HasId(CurrentGraph(EngineUser).objectives, args.objectiveId)
        /\ EngineCall("cosimo_add_deliverable", args)

LinkedNext ==
    \/ EngineAddObjective
    \/ LinkedAddDeliverable
    \/ EngineUpdateObjective
    \/ EngineUpdateDeliverable
    \/ EngineDelete

SpecLinked == EngineInit /\ [][LinkedNext]_vars

\* C34: in every graph reachable from the empty graph by add, update and
\* delete calls in which every addDeliverable names an existing objective,
\* deliverable d's id is in objective o's linkedDeliverables if and only if
\* o's id is in d's linkedObjectives.
C34_BackLinksSymmetric ==
    LET g == CurrentGraph(EngineUser) IN
    \A i \in 1..Len(g.objectives), j \in 1..Len(g.deliverables) :
        Contains(g.objectives[i].linkedDeliverables, g.deliverables[j].id)
            <=> Contains(g.deliverables[j].linkedObjectives, g.objectives[i].id)

\* C34 witness: after a delete, the graph still holds an objective and a
\* deliverable linked to each other, and an objective not linked to it.
C34_Witness ==
    LET g == CurrentGraph(EngineUser) IN
    /\ last.ok /\ last.tool = "cosimo_delete"
    /\ Len(g.objectives) >= 1 /\ Len(g.deliverables) >= 1
    /\ Contains(g.objectives[1].linkedDeliverables, g.deliverables[1].id)
    /\ Contains(g.deliverables[1].linkedObjectives, g.objectives[1].id)

\* the last call was a successful cosimo_delete
Deleted == last.ok /\ last.tool = "cosimo_delete"

\* the relationship keys that name id in the segment a delete of id matches:
\* the objective segment for an obj- id, the deliverable segment for a del- id
KeysOf(rels, id) ==
    {k \in DOMAIN rels :
        \/ startsWith(id, OBJ) /\ SubSeq(k, 1, IndexOf(k, ":") - 1) = id
        \/ startsWith(id, DEL) /\ SubSeq(k, IndexOf(k, ":") + 1, Len(k)) = id}

\* C35: delete(id) removes nothing that does not reference id: objectives and
\* deliverables with other ids, link-array entries other than id, and
\* relationship keys whose matching segment is a different id (obj-1 versus
\* obj-10, del-1 versus del-11) are all unchanged.
C35_DeleteFrame ==
    Deleted
        => LET id == last.args.id
               before == last.loaded
               others(items) == SelectSeq(items, LAMBDA x : x.id # id)
           IN /\ Len(others(StoredGraph.objectives)) = Len(others(before.objectives))
              /\ \A i \in 1..Len(others(before.objectives)) :
                    LET old == others(before.objectives)[i]
                        new == others(StoredGraph.objectives)[i]
                    IN /\ [new EXCEPT !.linkedDeliverables = <<>>]
                            = [old EXCEPT !.linkedDeliverables = <<>>]
                       /\ new.linkedDeliverables = Without(old.linkedDeliverables, id)
              /\ Len(others(StoredGraph.deliverables)) = Len(others(before.deliverables))
              /\ \A i \in 1..Len(others(before.deliverables)) :
                    LET old == others(before.deliverables)[i]
                        new == others(StoredGraph.deliverables)[i]
                    IN /\ [new EXCEPT !.linkedObjectives = <<>>]
                            = [old EXCEPT !.linkedObjectives = <<>>]
                       /\ new.linkedObjectives = Without(old.linkedObjectives, id)
              /\ \A k \in DOMAIN before.relationships \ KeysOf(before.relationships, id) :
                    /\ k \in DOMAIN StoredGraph.relationships
                    /\ StoredGraph.relationships[k] = before.relationships[k]

\* C35 witness: obj-1 was deleted from a graph that also held obj-10, and
\* obj-10, its links and its relationship keys are still there.
C35_Witness ==
    /\ Deleted /\ last.args.id = ObjId(1)
    /\ HasId(last.loaded.objectives, ObjId(1))
    /\ HasId(StoredGraph.objectives, ObjId(10))
    /\ ~HasId(StoredGraph.objectives, ObjId(1))
    /\ DOMAIN StoredGraph.relationships
          = {RelKey(ObjId(10), DelId(1)), RelKey(ObjId(10), DelId(11))}
    /\ StoredEntity(StoredGraph.deliverables, DelId(11)).linkedObjectives = <<ObjId(10)>>

\* C36: the line transport emits the -32700 Parse error reply only for lines
\* that fail to parse as JSON: a line that parses as JSON is never answered
\* with code -32700, and its reply carries the request's own id.
C36_ParseErrorOnlyForUnparsable ==
    (reply.transport = "line" /\ reply.input # "unparsable")
        => /\ reply.code # -32700
           /\ reply.lines = 1 => reply.id = "echo"

---------------------------------------------------------------------------
(* The local package with several input lines in flight: rl.on('line') is   *)
(* an async listener, so each line's handler runs up to its next await and  *)
(* the handlers of lines that arrived meanwhile run in between              *)

LineConcTools == {"cosimo_get", "cosimo_add_objective"}

\* a tools/call line arrives: its handler parses it and runs up to the fetch
\* of fetchData; seq is the line's number in arrival order
LineBegin(s, tool, args) ==
    /\ stdio.open
    /\ req[s].pc = "idle"
    /\ \A t \in Slots : t < s => req[t].pc # "idle"
    /\ clock < MaxConcCalls
    /\ clock' = clock + 1
    /\ req' = [req EXCEPT ![s] =
                 [IdleSlot EXCEPT !.pc = "begun",
                                  !.call = [NoCall EXCEPT
                                              !.user = Lookup(stdio.API_KEY, api_key),
                                              !.surface = "line",
                                              !.enc = Truthy(stdio.PASSPHRASE),
                                              !.pass = stdio.PASSPHRASE,
                                              !.seq = clock + 1,
                                              !.tool = tool, !.args = args]]]
    /\ reply' = [NoReply EXCEPT !.sent = <<BlobRequest("GET", Absent)>>]
    /\ UNCHANGED <<blob, account, DEFAULT_DATA, last, allocated, looseKeys>>
    /\ UNCHANGED <<api_key, sseConnections, conn, stdio, failures>>

\* the server answers the GET of fetchData
LineLoad(s) ==
    /\ req[s].pc = "begun"
    /\ req[s].call.user # ""
    /\ req' = [req EXCEPT ![s].pc = "loaded", ![s].raw = BlobGet(blob, req[s].call.user)]
    /\ reply' = NoReply
    /\ UNCHANGED <<blob, account, DEFAULT_DATA, clock, last, allocated, looseKeys>>
    /\ UNCHANGED <<api_key, sseConnections, conn, stdio, failures>>

\* the handler resumes after fetchData: the tool's switch runs up to the
\* fetch of saveData, or to the reply when the tool saves nothing
LineCompute(s) ==
    LET c == req[s].call
        ld == getUserData(req[s].raw, c.enc, c.pass, stdio.DEFAULT_DATA)
        out == IF ld.ok THEN executeTool(c.tool, c.args, ld.data, clock)
               ELSE Thrown(EmptyDoc, "Decryption failed")
        done == [c EXCEPT !.status = IF out.ok THEN "result" ELSE "isError",
                          !.ok = out.ok, !.stored = out.store,
                          !.created = out.created, !.before = req[s].raw,
                          !.loaded = ld.data, !.data = out.data, !.now = clock,
                          !.err = out.err]
        body == saveData(c.pass, out.data)
    IN /\ req[s].pc = "loaded"
       /\ stdio' = IF ld.ok /\ ld.shared
                   THEN [stdio EXCEPT
                           !.DEFAULT_DATA = SharedAfter(c.tool, c.args, stdio.DEFAULT_DATA, out)]
                   ELSE stdio
       /\ IF out.store
          THEN /\ req' = [req EXCEPT ![s].pc = "computed", ![s].call = done,
                                     ![s].payload = body]
               /\ last' = last
               /\ reply' = [NoReply EXCEPT !.sent = <<BlobRequest("PUT", body)>>]
               /\ failures' = failures
          ELSE /\ req' = [req EXCEPT ![s] = IdleSlot]
               /\ last' = done
               /\ reply' = LineReply("tools/call", ToolAnswer(out.ok))
               /\ failures' = [failures EXCEPT !.line = @ \/ ~out.ok]
       /\ UNCHANGED <<blob, account, DEFAULT_DATA, clock, allocated, looseKeys>>
       /\ UNCHANGED <<api_key, sseConnections, conn>>

\* the server performs the PUT of saveData and the handler writes its reply
LineStore(s) ==
    LET c == req[s].call IN
    /\ req[s].pc = "computed"
    /\ blob' = BlobPut(blob, c.user, req[s].payload)
    /\ last' = [c EXCEPT !.overwrote = blob[c.user]]
    /\ req' = [req EXCEPT ![s] = IdleSlot]
    /\ allocated' = IF c.tool = "cosimo_add_objective"
                    THEN [allocated EXCEPT !.obj = Append(@, c.created)]
                    ELSE allocated
    /\ reply' = LineReply("tools/call", ToolAnswer(TRUE))
    /\ UNCHANGED <<account, DEFAULT_DATA, clock, looseKeys>>
    /\ UNCHANGED <<api_key, sseConnections, conn, stdio, failures>>

LineConcNext ==
    \/ \E s \in Slots, tool \in LineConcTools : \E args \in ArgsOf(tool) :
          LineBegin(s, tool, args)
    \/ \E s \in Slots : LineLoad(s)
    \/ \E s \in Slots : LineCompute(s)
    \/ \E s \in Slots : LineStore(s)

SpecLineConc == TransportInit /\ [][LineConcNext]_vars

\* C37: on the line transport, tool calls from successive input lines run one
\* at a time in arrival order: the load of a later line's tools/call happens
\* after the store of every earlier line's tools/call, so two mutating lines
\* sent back to back are both reflected in the final stored graph.
C37_LineCallsRunOneAtATime ==
    /\ \A s, t \in Slots :
          (req[s].pc # "idle" /\ req[t].pc # "idle"
             /\ req[s].call.seq < req[t].call.seq)
                => req[t].pc = "begun"
    /\ (\A s \in Slots : req[s].pc = "idle")
          => Len(blob[LineUser].doc.objectives) = Len(allocated.obj)

\* C38: a stored sealed envelope is only ever overwritten by a tool call that
\* first opened it successfully: a mutating call that cannot decrypt the
\* current blob (no passphrase configured on the line transport, or a session
\* whose cached encryption flag is off) fails without writing.
C38_EnvelopeOverwrittenOnlyAfterOpen ==
    (last.stored /\ last.overwrote.kind = "sealed" /\ last.before = last.overwrote)
        => /\ last.enc /\ last.pass = last.before.key
           /\ last.loaded = last.before.doc

\* C39: in every reachable state, under any interleaving of enable-encryption
\* with tool calls, a user whose encryption flag is enabled has a stored blob
\* that is a sealed envelope under that user's passphrase, never plaintext
\* JSON (stated for the user whose row starts as plaintext with the flag off).
C39_EnabledFlagMeansSealedBlob ==
    account[LineUser].encryption_enabled
        => /\ blob[LineUser].kind = "sealed"
           /\ verifyPassphrase(blob[LineUser].key, account[LineUser].passphrase_hash)

\* the graph without its timestamp
UpToLastUpdated(g) == [g EXCEPT !.lastUpdated = 0]

\* what the dispatcher the last call did not go through yields for the same
\* tool, arguments and loaded data
OtherView ==
    IF last.surface = "http"
    THEN executeTool(last.tool, last.args, last.loaded, last.now)
    ELSE execute(last.tool, last.args, last.loaded, last.now)

====
